---------------------------- MODULE Spec2Model ----------------------------
(***************************************************************************)
(* A model of the editor store (src/src/store/editorStore.ts), of the      *)
(* preview's frame composition (src/src/components/VideoPreview.tsx), of   *)
(* the export orchestration (src/src/components/ExportPanel.tsx) and of    *)
(* the audio processor (src/unnamed/part_001, utils/audioProcessor).       *)
(*                                                                         *)
(* Numbers are fixed-point: a time counts units of 1/TimeUnit second, a    *)
(* volume units of 1/VolUnit and a sample units of 1/SampleUnit, so that   *)
(* the halves and the products the inputs lead to are exact.  Float32      *)
(* rounding is not modelled.                                               *)
(* A clip id is a tuple: <<base>> for a clip made by a caller, and the id  *)
(* with the value of Date.now() appended for `${id}-copy-${Date.now()}`.   *)
(***************************************************************************)
EXTENDS Integers, Sequences, FiniteSets, TLC

VARIABLES
    tracks,          \* project.timeline.tracks
    duration,        \* project.timeline.duration
    currentTime,     \* playback.currentTime
    selectedClips,   \* project.selectedClips
    clipboard,       \* project.clipboard
    playback,        \* playback.isPlaying and playback.playbackRate
    timeline,        \* project.timeline.currentTime, .isPlaying, .playbackRate
    now,             \* the value Date.now() returns
    drawn,           \* the clips renderFrame passed to renderClip, in order
    pc,              \* where handleExport / processTimelineExport stands
    isExporting,     \* ExportPanel state
    exportStatus,    \* ExportPanel state
    exportProgress,  \* ExportPanel state, in percent
    exportError,     \* ExportPanel state
    exportSettings,  \* ExportPanel state: format and quality
    audioContext,    \* audioProcessor.audioContext: "null", or its state
    isLoaded,        \* videoProcessor.isLoaded
    listeners,       \* 'progress' listeners registered on the transcoder
    execProgress,    \* last progress event of the exec in flight, -1 if none
    calls,           \* the service calls of the export, in order
    loc,             \* the local variables of the export's functions
    downloads,       \* the blobs handed to downloadBlob
    fs,              \* the output files in the transcoder's file system
    heap,            \* the audio buffers that exist, a buffer's index its identity
    call,            \* the last call of the audio processor made on the heap
    returned,        \* the buffer of the heap that call returned, 0 if it threw
                     \* or returned no buffer
    wav,             \* the bytes of the Blob the last exportToWav returned
    tasks,           \* the callers of the transcoder that run side by side
    resize           \* what handleResizeStart captured for the drag under way

storeVars == <<tracks, duration, currentTime, playback, timeline,
               selectedClips, clipboard, now, drawn>>

exportVars == <<pc, isExporting, exportStatus, exportProgress, exportError,
                exportSettings, audioContext, isLoaded, listeners,
                execProgress, calls, loc, downloads, fs>>

audioVars == <<heap, call, returned, wav>>

----------------------------------------------------------------------------
(* Bounds of the model *)

MaxClips == 2        \* clips on the whole timeline
MaxNow == 1          \* last value of the clock
MaxRuns == 2          \* exports started that reach the clip collection
MaxCopies == 1       \* copy suffixes in one clip id
MaxBuffers == 3      \* audio buffers on the heap
MaxTime == 4         \* latest time a resize drag asks for
MaxTracks == 3       \* tracks on the timeline when addTrack is called

VolUnit == 2         \* the fixed-point representation of volume 1
TimeUnit == 2        \* the fixed-point representation of 1 second
SampleUnit == 100    \* the fixed-point representation of the sample 1.0
FileRate == 2        \* samples per second of the audio files of the inputs

Times == {0, 1, 2}

----------------------------------------------------------------------------
(* Generic helpers *)

Max(a, b) == IF a >= b THEN a ELSE b
Min(a, b) == IF a <= b THEN a ELSE b

Range(s) == {s[i] : i \in 1..Len(s)}

RECURSIVE SeqMaxOf(_, _)
SeqMaxOf(s, init) ==
    IF s = <<>> THEN init ELSE SeqMaxOf(Tail(s), Max(init, Head(s)))

----------------------------------------------------------------------------
(* Clips and tracks: src/src/types/editor.ts *)

NoFile == "none"     \* a clip without a file property (a text clip)

StubDuration == 10   \* the duration extractVideoInfo reports for every file

Effect(type, enabled) == [type |-> type, enabled |-> enabled]

Clip(id, type, file, startTime, endTime, trimStart, trimEnd, volume, effects) ==
    [id |-> id, type |-> type, file |-> file,
     duration |-> StubDuration * TimeUnit,
     startTime |-> startTime, endTime |-> endTime,
     trimStart |-> trimStart, trimEnd |-> trimEnd,
     volume |-> volume, effects |-> effects]

Track(id, type, muted, visible, clips) ==
    [id |-> id, type |-> type, muted |-> muted, visible |-> visible,
     clips |-> clips]

defaultTracks ==
    << Track("video-track-1", "video", FALSE, TRUE, <<>>),
       Track("audio-track-1", "audio", FALSE, TRUE, <<>>) >>

TrackIds(trks) == {trks[i].id : i \in 1..Len(trks)}

RECURSIVE FlatClips(_)
FlatClips(trks) ==
    IF trks = <<>> THEN <<>> ELSE Head(trks).clips \o FlatClips(Tail(trks))

NumClips(trks) == Len(FlatClips(trks))

\* tracks.find(t => t.id === trackId): the index of the first match, 0 if none
FindTrack(trks, trackId) ==
    IF \E i \in 1..Len(trks) : trks[i].id = trackId
    THEN CHOOSE i \in 1..Len(trks) :
            /\ trks[i].id = trackId
            /\ \A j \in 1..(i - 1) : trks[j].id # trackId
    ELSE 0

----------------------------------------------------------------------------
(* The preview: src/src/components/VideoPreview.tsx, renderFrame *)

\* .flatMap(track => track.clips) over the tracks that pass the filter; each
\* entry remembers the index of its track in project.timeline.tracks
\* .filter(track => track.visible)
TrackRendered(track) == track.visible

\* tracks.filter(keep).flatMap(track => track.clips), keep given as the set
\* of the indexes of the tracks it keeps
RECURSIVE FlatMapWhere(_, _, _)
FlatMapWhere(trks, i, kept) ==
    IF i > Len(trks) THEN <<>>
    ELSE (IF i \in kept
          THEN [k \in 1..Len(trks[i].clips) |->
                    [clip |-> trks[i].clips[k], track |-> i]]
          ELSE <<>>) \o FlatMapWhere(trks, i + 1, kept)

FlatMapFrom(trks, i) ==
    FlatMapWhere(trks, i, {j \in 1..Len(trks) : TrackRendered(trks[j])})

IsActiveAtMutant(c, t) == c.startTime <= t /\ c.endTime >= t
\* clip.startTime <= currentTime && clip.endTime > currentTime
IsActiveAt(c, t) == c.startTime <= t /\ c.endTime > t

\* Array.prototype.sort((a, b) => a.startTime - b.startTime): a stable sort
\* (ECMAScript 2019), here by insertion after the last entry that is not larger
RECURSIVE InsertByStart(_, _)
InsertByStart(sorted, e) ==
    IF sorted = <<>> THEN <<e>>
    ELSE IF e.clip.startTime - Head(sorted).clip.startTime < 0
         THEN <<e>> \o sorted
         ELSE <<Head(sorted)>> \o InsertByStart(Tail(sorted), e)

RECURSIVE SortByStartFrom(_, _)
SortByStartFrom(s, acc) ==
    IF s = <<>> THEN acc
    ELSE SortByStartFrom(Tail(s), InsertByStart(acc, Head(s)))

SortByStartMutant(s) == s
SortByStart(s) == SortByStartFrom(s, <<>>)

VisibleClips(trks, t) ==
    SortByStart(SelectSeq(FlatMapFrom(trks, 1),
                          LAMBDA e : IsActiveAt(e.clip, t)))

\* useEffect(() => { renderFrame() }, [renderFrame]): the frame is composed
\* again after every change of the project or of the playhead
Rendered == drawn' = VisibleClips(tracks', currentTime')

----------------------------------------------------------------------------
(* The store: src/src/store/editorStore.ts *)

\* Object.assign(target, updates)
ObjectAssign(target, updates) ==
    [f \in DOMAIN target |->
        IF f \in DOMAIN updates THEN updates[f] ELSE target[f]]

\* findIndex: the index of the first clip with the id, 0 for -1
FindClipIndex(clips, clipId) ==
    IF \E i \in 1..Len(clips) : clips[i].id = clipId
    THEN CHOOSE i \in 1..Len(clips) :
            /\ clips[i].id = clipId
            /\ \A j \in 1..(i - 1) : clips[j].id # clipId
    ELSE 0

Includes(s, x) == \E i \in 1..Len(s) : s[i] = x

\* `${clip.id}-copy-${Date.now()}`
CopyId(id, t) == Append(id, t)

addClipTracks(trks, trackId, clip) ==
    LET i == FindTrack(trks, trackId) IN
    IF i = 0 THEN trks
    ELSE [trks EXCEPT ![i].clips = Append(@, clip)]

addClipDuration(trks, dur, trackId, clip) ==
    LET clipEnd == clip.startTime + (clip.endTime - clip.startTime) IN
    IF FindTrack(trks, trackId) # 0 /\ clipEnd > dur THEN clipEnd ELSE dur

removeClipTracks(trks, clipId) ==
    [i \in 1..Len(trks) |->
        [trks[i] EXCEPT !.clips = SelectSeq(@, LAMBDA c : c.id # clipId)]]

updateClipTracks(trks, clipId, updates) ==
    [i \in 1..Len(trks) |->
        LET k == FindClipIndex(trks[i].clips, clipId) IN
        IF k = 0 THEN trks[i]
        ELSE [trks[i] EXCEPT !.clips[k] = ObjectAssign(@, updates)]]

copiedClips(trks, selected) ==
    SelectSeq(FlatClips(trks), LAMBDA c : Includes(selected, c.id))

pastedClips(board, time, t) ==
    [k \in 1..Len(board) |->
        [board[k] EXCEPT !.id = CopyId(board[k].id, t),
                         !.startTime = time,
                         !.endTime = time + (board[k].endTime - board[k].startTime)]]

pasteClipsTracks(trks, board, trackId, time, t) ==
    LET i == FindTrack(trks, trackId) IN
    IF i # 0 /\ Len(board) > 0
    THEN [trks EXCEPT ![i].clips = @ \o pastedClips(board, time, t)]
    ELSE trks

updateTrackTracks(trks, trackId, updates) ==
    LET i == FindTrack(trks, trackId) IN
    IF i = 0 THEN trks ELSE [trks EXCEPT ![i] = ObjectAssign(@, updates)]

\* `${type}-track-${n}`
TrackId(type, n) ==
    CASE type = "video" /\ n = 1 -> "video-track-1"
      [] type = "video" /\ n = 2 -> "video-track-2"
      [] type = "video" /\ n = 3 -> "video-track-3"
      [] type = "video" /\ n = 4 -> "video-track-4"
      [] type = "video" /\ n = 5 -> "video-track-5"
      [] type = "audio" /\ n = 1 -> "audio-track-1"
      [] type = "audio" /\ n = 2 -> "audio-track-2"
      [] type = "audio" /\ n = 3 -> "audio-track-3"
      [] type = "audio" /\ n = 4 -> "audio-track-4"
      [] type = "audio" /\ n = 5 -> "audio-track-5"

\* tracks.filter(t => t.type === type).length
TrackCount(trks, type) == Len(SelectSeq(trks, LAMBDA t : t.type = type))

addTrackTracks(trks, type) ==
    Append(trks, Track(TrackId(type, TrackCount(trks, type) + 1), type,
                       FALSE, TRUE, <<>>))

removeTrackTracks(trks, trackId) ==
    SelectSeq(trks, LAMBDA t : t.id # trackId)

\* trackIds.map(id => tracks.find(t => t.id === id)).filter(Boolean)
reorderTracksTracks(trks, trackIds) ==
    LET found == [k \in 1..Len(trackIds) |-> FindTrack(trks, trackIds[k])]
        kept == SelectSeq(found, LAMBDA i : i # 0)
    IN  [k \in 1..Len(kept) |-> trks[kept[k]]]


----------------------------------------------------------------------------
(* The audio processor: src/unnamed/part_001 (utils/audioProcessor) *)

AudioError == [error |-> "NotSupportedError"]     \* the call throws

AudioBuffer(sampleRate, channelData) ==
    [numberOfChannels |-> Len(channelData), sampleRate |-> sampleRate,
     length |-> Len(channelData[1]), channelData |-> channelData]

\* context.createBuffer(channels, length, sampleRate) throws NotSupportedError
\* unless channels and length are positive
CanCreateBuffer(channels, length) == channels >= 1 /\ length >= 1

\* Math.floor(time * sampleRate)
SampleAt(time, sampleRate) == (time * sampleRate) \div TimeUnit

\* originalData[index] || 0, index counted from 0
SampleOrZero(data, index) ==
    IF index >= 0 /\ index < Len(data) THEN data[index + 1] ELSE 0

TrimAudio(audioBuffer, startTime, endTime) ==
    LET sampleRate == audioBuffer.sampleRate
        startSample == SampleAt(startTime, sampleRate)
        endSample == SampleAt(endTime, sampleRate)
        length == endSample - startSample
    IN  IF ~CanCreateBuffer(audioBuffer.numberOfChannels, length) THEN AudioError
        ELSE AudioBuffer(sampleRate,
                [channel \in 1..audioBuffer.numberOfChannels |->
                    [i \in 1..length |->
                        SampleOrZero(audioBuffer.channelData[channel],
                                     startSample + i - 1)]])

ScaleMutant(sample, multiplier) == sample

\* sample * multiplier
Scale(sample, multiplier) == (sample * multiplier) \div VolUnit

ChangeVolume(audioBuffer, volumeMultiplier) ==
    [audioBuffer EXCEPT !.channelData =
        [channel \in 1..audioBuffer.numberOfChannels |->
            [i \in 1..audioBuffer.length |->
                Scale(audioBuffer.channelData[channel][i], volumeMultiplier)]]]

\* gain = i / fadeSamples for i < fadeSamples, 1 after
ApplyFadeIn(audioBuffer, fadeDuration) ==
    LET fadeSamples == SampleAt(fadeDuration, audioBuffer.sampleRate) IN
    [audioBuffer EXCEPT !.channelData =
        [channel \in 1..audioBuffer.numberOfChannels |->
            [n \in 1..audioBuffer.length |->
                IF n - 1 < fadeSamples
                THEN (audioBuffer.channelData[channel][n] * (n - 1))
                        \div fadeSamples
                ELSE audioBuffer.channelData[channel][n]]]]

\* gain = (length - i) / fadeSamples for i >= length - fadeSamples, 1 before
ApplyFadeOut(audioBuffer, fadeDuration) ==
    LET fadeSamples == SampleAt(fadeDuration, audioBuffer.sampleRate)
        fadeStart == audioBuffer.length - fadeSamples
    IN  [audioBuffer EXCEPT !.channelData =
            [channel \in 1..audioBuffer.numberOfChannels |->
                [n \in 1..audioBuffer.length |->
                    IF n - 1 >= fadeStart
                    THEN (audioBuffer.channelData[channel][n]
                            * (audioBuffer.length - (n - 1))) \div fadeSamples
                    ELSE audioBuffer.channelData[channel][n]]]]

Abs(x) == IF x < 0 THEN -x ELSE x

PeakMutant(audioBuffer) ==
    SeqMaxOf([i \in 1..audioBuffer.length |->
                Abs(audioBuffer.channelData[1][i])], 0)

Peak(audioBuffer) ==
    SeqMaxOf([channel \in 1..audioBuffer.numberOfChannels |->
                SeqMaxOf([i \in 1..audioBuffer.length |->
                            Abs(audioBuffer.channelData[channel][i])], 0)], 0)

\* if (peak === 0) return audioBuffer
NormalizeReturnsInput(audioBuffer) == Peak(audioBuffer) = 0

\* changeVolume(audioBuffer, 0.95 / peak), the quotient rounded down
NormalizeAudio(audioBuffer) ==
    LET peak == Peak(audioBuffer) IN
    IF peak = 0 THEN audioBuffer
    ELSE [audioBuffer EXCEPT !.channelData =
            [channel \in 1..audioBuffer.numberOfChannels |->
                [i \in 1..audioBuffer.length |->
                    (audioBuffer.channelData[channel][i] * 95 * SampleUnit)
                        \div (100 * peak)]]]

\* Math.floor((startTime + buffer.duration) * sampleRate)
EndSampleOf(entry, sampleRate) ==
    ((entry.startTime * entry.buffer.sampleRate
        + entry.buffer.length * TimeUnit) * sampleRate)
    \div (TimeUnit * entry.buffer.sampleRate)

\* the sum over the entries of sourceData[n - startSample] * volume
RECURSIVE MixedSample(_, _, _, _)
MixedSample(buffers, sampleRate, channel, n) ==
    IF buffers = <<>> THEN 0
    ELSE LET entry == Head(buffers)
             startSample == SampleAt(entry.startTime, sampleRate)
             sourceChannel == Min(channel, entry.buffer.numberOfChannels)
             sourceData == entry.buffer.channelData[sourceChannel]
             i == n - startSample
         IN  (IF i >= 0 /\ i < Len(sourceData)
              THEN Scale(sourceData[i + 1], entry.volume) ELSE 0)
             + MixedSample(Tail(buffers), sampleRate, channel, n)

MixAudioBuffers(buffers) ==
    IF buffers = <<>> THEN AudioError
    ELSE LET sampleRate == buffers[1].buffer.sampleRate
             totalSamples ==
                 SeqMaxOf([k \in 1..Len(buffers) |->
                             EndSampleOf(buffers[k], sampleRate)], 0)
             channels ==
                 SeqMaxOf([k \in 1..Len(buffers) |->
                             buffers[k].buffer.numberOfChannels], 0)
         IN  IF ~CanCreateBuffer(channels, totalSamples) THEN AudioError
             ELSE AudioBuffer(sampleRate,
                     [channel \in 1..channels |->
                         [n \in 1..totalSamples |->
                             MixedSample(buffers, sampleRate, channel, n - 1)]])

\* Math.max(-1, Math.min(1, sample)), then sample * 0x8000 or sample * 0x7FFF,
\* truncated by setInt16
ToInt16Mutant(sample) ==
    IF sample < 0 THEN -((-sample * 32768) \div SampleUnit)
    ELSE (sample * 32767) \div SampleUnit

ToInt16(sample) ==
    LET clamped == Max(-SampleUnit, Min(SampleUnit, sample)) IN
    IF clamped < 0 THEN -((-clamped * 32768) \div SampleUnit)
    ELSE (clamped * 32767) \div SampleUnit

\* the WAV file: the header's fields and the interleaved 16-bit samples
ExportToWav(audioBuffer) ==
    LET channels == audioBuffer.numberOfChannels
        length == audioBuffer.length
    IN  [type |-> "audio/wav",
         byteLength |-> 44 + length * channels * 2,
         numberOfChannels |-> channels,
         sampleRate |-> audioBuffer.sampleRate,
         data |-> [k \in 1..(length * channels) |->
                     ToInt16(audioBuffer.channelData[((k - 1) % channels) + 1]
                                                    [((k - 1) \div channels) + 1])]]

\* writeString: one byte per character, the character's code
WriteString(codes) == codes

RIFF == <<82, 73, 70, 70>>
WAVE == <<87, 65, 86, 69>>
FMT == <<102, 109, 116, 32>>     \* 'fmt '
DATA == <<100, 97, 116, 97>>

\* view.setUint32(offset, value, false): high byte first
Uint32BE(value) ==
    <<(value \div 16777216) % 256, (value \div 65536) % 256,
      (value \div 256) % 256, value % 256>>

\* view.setUint32(offset, value, true): the four low bytes of the value,
\* that is the value modulo 2^32, low byte first
Uint32LE(value) ==
    <<value % 256, (value \div 256) % 256, (value \div 65536) % 256,
      (value \div 16777216) % 256>>

\* view.setUint16(offset, value, true)
Uint16LE(value) ==
    LET v == value % 65536 IN <<v % 256, v \div 256>>

\* view.setInt16(offset, value, true) of a value already truncated: two's
\* complement modulo 2^16, low byte first
Int16LE(value) == Uint16LE(value)

\* the 44 bytes written at offsets 0, 4, 8, 12, 16, 20, 22, 24, 28, 32, 34,
\* 36 and 40
WavHeader(audioBuffer) ==
    LET numberOfChannels == audioBuffer.numberOfChannels
        sampleRate == audioBuffer.sampleRate
        length == audioBuffer.length
    IN  WriteString(RIFF) \o Uint32LE(36 + length * numberOfChannels * 2)
        \o WriteString(WAVE) \o WriteString(FMT) \o Uint32LE(16)
        \o Uint16LE(1) \o Uint16LE(numberOfChannels) \o Uint32LE(sampleRate)
        \o Uint32LE(sampleRate * numberOfChannels * 2)
        \o Uint16LE(numberOfChannels * 2) \o Uint16LE(16)
        \o WriteString(DATA) \o Uint32LE(length * numberOfChannels * 2)

\* the bytes of the ArrayBuffer of 44 + length * numberOfChannels * 2 bytes
\* after the header and the loop over frames and channels: byte k of the
\* sequence is the byte at offset k - 1
WavBytes(audioBuffer) ==
    LET size == 44 + audioBuffer.length * audioBuffer.numberOfChannels * 2
        header == WavHeader(audioBuffer)
        data == ExportToWav(audioBuffer).data
    IN  [k \in 1..size |->
            IF k <= 44 THEN header[k]
            ELSE Int16LE(data[((k - 45) \div 2) + 1])[((k - 45) % 2) + 1]]

----------------------------------------------------------------------------
(* The export: src/src/components/ExportPanel.tsx and the transcoder of    *)
(* src/src/utils/videoProcessor.ts                                          *)

\* one entry of the log of the export's service calls
Call(ev, svc, op, clip, e, arg) ==
    [ev |-> ev, svc |-> svc, op |-> op, clip |-> clip, e |-> e, arg |-> arg]

VideoEffect(type, enabled, intensity) ==
    [type |-> type, enabled |-> enabled, intensity |-> intensity]

\* a filter string: its text and the number that ends it, num / den
FilterString(name, num, den) == [name |-> name, num |-> num, den |-> den]

NoFilter == FilterString("", 0, 1)

getFFmpegFilterString(effect) ==
    CASE effect.type = "brightness" ->
            FilterString("eq=brightness=", effect.intensity - 50, 100)
      [] effect.type = "contrast" ->
            FilterString("eq=contrast=", 100 + effect.intensity - 50, 100)
      [] effect.type = "saturation" ->
            FilterString("eq=saturation=", 100 + effect.intensity - 50, 100)
      [] effect.type = "hue" ->
            FilterString("hue=h=", effect.intensity * 36, 10)
      [] effect.type = "blur" ->
            FilterString("boxblur=", effect.intensity, 10)
      [] effect.type = "grayscale" ->
            FilterString("colorchannelmixer=.3:.4:.3:0:.3:.4:.3:0:.3:.4:.3", 0, 1)
      [] effect.type = "sepia" ->
            FilterString("colorchannelmixer=.393:.769:.189:0:.349:.686:.168:0:.272:.534:.131", 0, 1)
      [] effect.type = "invert" -> FilterString("negate", 0, 1)
      [] OTHER -> NoFilter

\* the effect the e-th turn of `for (const effect of clip.effects)` takes
EffectAtMutant(clip, e) == clip.effects[Len(clip.effects) - e + 1]
EffectAt(clip, e) == clip.effects[e]

\* the cases of the switch over effect.type in processAudioClips
AudioEffectHandled(type) ==
    type \in {"normalize", "lowpass", "highpass", "reverb"}

\* clip.trimStart > 0 || clip.trimEnd < clip.duration
NeedsTrim(clip) == clip.trimStart > 0 \/ clip.trimEnd < clip.duration

\* clip.volume || 1
VolumeOrOne(clip) == IF clip.volume = 0 THEN VolUnit ELSE clip.volume

\* file.type of the files of the inputs
VideoFiles == {"v1.mp4", "v2.mp4", "x1.mp4"}
FileType(file) == IF file \in VideoFiles THEN "video/mp4" ELSE "audio/wav"

\* new Blob([await clip.file.arrayBuffer()], { type: clip.file.type })
FileBlob(file) == [type |-> FileType(file), name |-> file]

\* the blob read back after an exec of the transcoder
FFmpegOutput(type, op, name, a, b, inputs) ==
    [type |-> type, op |-> op, name |-> name, a |-> a, b |-> b,
     inputs |-> inputs]

trimVideo(file, startTime, endTime) ==
    FFmpegOutput("video/mp4", "trim", "", startTime, endTime - startTime,
                 <<file>>)

applyVideoFilter(file, filter) ==
    FFmpegOutput("video/mp4", "filter", filter.name, filter.num, filter.den,
                 <<file>>)

mergeVideos(files) ==
    FFmpegOutput("video/mp4", "concat", "", Len(files), 0, files)

addAudioToVideo(videoFile, audioFile) ==
    FFmpegOutput("video/mp4", "mux", "aac", 0, 0, <<videoFile, audioFile>>)

\* qualitySettings: the -crf of each quality
Crf(quality) ==
    CASE quality = "low" -> 28
      [] quality = "medium" -> 23
      [] quality = "high" -> 18
      [] quality = "ultra" -> 15

MimeType(format) ==
    IF format = "mp4" THEN "video/mp4"
    ELSE IF format = "webm" THEN "video/webm" ELSE "video/quicktime"

\* the frame at timeSeconds, scaled to 160x90
generateThumbnail(file, timeSeconds) ==
    FFmpegOutput("image/jpeg", "thumbnail", "scale=160:90", timeSeconds, 1,
                 <<file>>)

convertToFormatMutant(file, format, quality) == file

convertToFormat(file, format, quality) ==
    FFmpegOutput(MimeType(format), "convert", format, Crf(quality), 0,
                 <<file>>)

\* Math.min(progress * 0.8, 80), progress in percent
VideoShare(progress) == Min((progress * 8) \div 10, 80)

\* the progress events of one exec, in percent of the exec
ProgressEvents == {0, 100}

\* the clips the export collects: the tracks filtered by type and by
\* visible / !muted, their clips, those with a file, sorted by startTime
ExportClips(trks, kept) ==
    LET sorted == SortByStart(SelectSeq(FlatMapWhere(trks, 1, kept),
                                        LAMBDA en : en.clip.file # NoFile))
    IN  [k \in 1..Len(sorted) |-> sorted[k].clip]

videoClipsMutant(trks) ==
    ExportClips(trks, {j \in 1..Len(trks) : trks[j].type = "video"})

videoClips(trks) ==
    ExportClips(trks, {j \in 1..Len(trks) :
                          trks[j].type = "video" /\ trks[j].visible})

audioClips(trks) ==
    ExportClips(trks, {j \in 1..Len(trks) :
                          trks[j].type = "audio" /\ ~trks[j].muted})

\* decodeAudioData: the content of the audio files of the inputs, mono
FileAudio(file) ==
    CASE file = "a.wav" -> AudioBuffer(FileRate, << <<12, -20, 32, 8>> >>)
      [] file = "b.wav" -> AudioBuffer(FileRate, << <<40, 80, -40, 20>> >>)
      [] OTHER -> AudioBuffer(FileRate, << <<8, -16, 24, 32, 16, -8>> >>)

\* startRendering of the offline graph of a filter or of the reverb: a
\* buffer of the source's shape; of its content only two cases are kept
Silence(audioBuffer) ==
    [audioBuffer EXCEPT !.channelData =
        [channel \in 1..audioBuffer.numberOfChannels |->
            [i \in 1..audioBuffer.length |-> 0]]]

RenderOutcomes(audioBuffer) == {audioBuffer, Silence(audioBuffer)}

AudioEffectOutcomes(type, audioBuffer) ==
    IF type = "normalize" THEN {NormalizeAudio(audioBuffer)}
    ELSE RenderOutcomes(audioBuffer)

----------------------------------------------------------------------------
(* The inputs of the store's actions *)


v1 == Clip(<<"v1">>, "video", "v1.mp4", 0, 2, 0, StubDuration * TimeUnit, VolUnit, <<>>)
v2 == Clip(<<"v2">>, "video", "v2.mp4", 0, 1, 0, StubDuration * TimeUnit, VolUnit, <<>>)
a1 == Clip(<<"a1">>, "audio", "a1.wav", 1, 2, 0, StubDuration * TimeUnit, VolUnit, <<>>)
\* malformed timing: startTime >= endTime, trimStart >= trimEnd
x1 == Clip(<<"x1">>, "video", "x1.mp4", 2, 1, 3, 3, VolUnit, <<>>)

EditClipInputs == {v1, a1, x1}
PreviewClipInputs == {v1, v2, a1}

TrackIdInputs == {"video-track-1", "audio-track-1", "no-such-track"}

\* the resize handles of a timeline clip, and any other caller of updateClip
EditUpdateInputs == {[startTime |-> 2], [endTime |-> 3]}
PreviewUpdateInputs == {[startTime |-> 1], [endTime |-> 3]}

TrackUpdateInputs(track) ==
    {[visible |-> ~track.visible], [muted |-> ~track.muted]}

ClipIds(trks) == {c.id : c \in Range(FlatClips(trks))}

----------------------------------------------------------------------------
(* The store's actions *)

\* the local variables of processTimelineExport, processVideoClips and
\* processAudioClips
Null == [type |-> "null"]

\* the names of the files the transcoder's calls write their output to
OutputNames == {"output.mp4", "merged.mp4", "output.webm", "output.mov"}

\* the names the operations write their input to (`input.${extension}`)
InputNames == {"input.mp4", "input.mov"}

FileNames == OutputNames \cup InputNames \cup {"thumbnail.jpg"}

NoFiles == [name \in FileNames |-> Null]

\* the page, the media library and the export panel, which call the
\* transcoder without waiting for one another
Procs == {"page", "library", "export"}

\* a caller with nothing to call
NoTask ==
    [program |-> <<>>, n |-> 1, pc |-> "call", file |-> Null, result |-> Null,
     failed |-> FALSE]

NoTasks == [p \in Procs |-> NoTask]

\* no call of the audio processor made yet
NoCall == [op |-> "none"]

AudioIdle ==
    /\ heap = <<>>
    /\ call = NoCall
    /\ returned = 0
    /\ wav = <<>>

NoLocals ==
    [videoClips |-> <<>>, audioClips |-> <<>>, i |-> 0, e |-> 0,
     pending |-> "", processedBlob |-> Null, processedFiles |-> <<>>,
     audioBuffer |-> Null, audioBuffers |-> <<>>, mixedBuffer |-> Null,
     finalVideoBlob |-> Null, finalAudioBlob |-> Null, finalBlob |-> Null]

\* defaultState.playback and defaultState.project.timeline
defaultPlayback == [isPlaying |-> FALSE, playbackRate |-> 1]

defaultTimeline == [currentTime |-> 0, isPlaying |-> FALSE, playbackRate |-> 1]

StoreDefault ==
    /\ tracks = defaultTracks
    /\ duration = 0
    /\ currentTime = 0
    /\ playback = defaultPlayback
    /\ timeline = defaultTimeline
    /\ selectedClips = <<>>
    /\ clipboard = <<>>
    /\ now = 0
    /\ drawn = <<>>

\* the ExportPanel as mounted, the processors as constructed
ExportIdle ==
    /\ pc = "idle"
    /\ isExporting = FALSE
    /\ exportStatus = "idle"
    /\ exportProgress = 0
    /\ exportError = ""
    /\ exportSettings = [format |-> "mp4", quality |-> "high"]
    /\ audioContext = "suspended"
    /\ isLoaded = FALSE
    /\ listeners = 0
    /\ execProgress = -1
    /\ calls = <<>>
    /\ loc = NoLocals
    /\ downloads = <<>>
    /\ fs = NoFiles

StoreInit ==
    StoreDefault /\ ExportIdle /\ AudioIdle /\ tasks = NoTasks /\ resize = Null

\* callers make clips with fresh ids (`video-${Date.now()}-${Math.random()}`)
AddClip(trackId, clip) ==
    /\ NumClips(tracks) < MaxClips
    /\ clip.id \notin ClipIds(tracks)
    /\ tracks' = addClipTracks(tracks, trackId, clip)
    /\ duration' = addClipDuration(tracks, duration, trackId, clip)
    /\ UNCHANGED <<currentTime, selectedClips, clipboard, now>>
    /\ Rendered
    /\ UNCHANGED <<playback, timeline>>
    /\ UNCHANGED exportVars
    /\ UNCHANGED audioVars
    /\ UNCHANGED <<tasks, resize>>

RemoveClipMutant(clipId) ==
    /\ tracks' = removeClipTracks(tracks, clipId)
    /\ selectedClips' = SelectSeq(selectedClips, LAMBDA id : id # clipId)
    /\ duration' = SeqMaxOf([k \in 1..Len(FlatClips(tracks')) |->
                               FlatClips(tracks')[k].endTime], 0)
    /\ currentTime' = Min(currentTime, duration')
    /\ timeline' = [timeline EXCEPT !.currentTime = currentTime']
    /\ UNCHANGED <<playback, clipboard, now>>
    /\ Rendered
    /\ UNCHANGED exportVars
    /\ UNCHANGED audioVars
    /\ UNCHANGED <<tasks, resize>>

RemoveClip(clipId) ==
    /\ tracks' = removeClipTracks(tracks, clipId)
    /\ selectedClips' = SelectSeq(selectedClips, LAMBDA id : id # clipId)
    /\ UNCHANGED <<duration, currentTime, clipboard, now>>
    /\ Rendered
    /\ UNCHANGED <<playback, timeline>>
    /\ UNCHANGED exportVars
    /\ UNCHANGED audioVars
    /\ UNCHANGED <<tasks, resize>>

UpdateClip(clipId, updates) ==
    /\ tracks' = updateClipTracks(tracks, clipId, updates)
    /\ UNCHANGED <<duration, currentTime, selectedClips, clipboard, now>>
    /\ Rendered
    /\ UNCHANGED <<playback, timeline>>
    /\ UNCHANGED exportVars
    /\ UNCHANGED audioVars
    /\ UNCHANGED <<tasks, resize>>

SelectClip(clipId, multiSelect) ==
    /\ selectedClips' =
          IF multiSelect
          THEN (IF Includes(selectedClips, clipId) THEN selectedClips
                ELSE Append(selectedClips, clipId))
          ELSE <<clipId>>
    /\ UNCHANGED <<tracks, duration, currentTime, clipboard, now>>
    /\ Rendered
    /\ UNCHANGED <<playback, timeline>>
    /\ UNCHANGED exportVars
    /\ UNCHANGED audioVars
    /\ UNCHANGED <<tasks, resize>>

CopyClips ==
    /\ clipboard' = copiedClips(tracks, selectedClips)
    /\ UNCHANGED <<tracks, duration, currentTime, selectedClips, now>>
    /\ Rendered
    /\ UNCHANGED <<playback, timeline>>
    /\ UNCHANGED exportVars
    /\ UNCHANGED audioVars
    /\ UNCHANGED <<tasks, resize>>

PasteClips(trackId, time) ==
    /\ NumClips(tracks) + Len(clipboard) <= MaxClips
    /\ \A k \in 1..Len(clipboard) : Len(clipboard[k].id) <= MaxCopies
    /\ tracks' = pasteClipsTracks(tracks, clipboard, trackId, time, now)
    /\ UNCHANGED <<duration, currentTime, selectedClips, clipboard, now>>
    /\ Rendered
    /\ UNCHANGED <<playback, timeline>>
    /\ UNCHANGED exportVars
    /\ UNCHANGED audioVars
    /\ UNCHANGED <<tasks, resize>>

UpdateTrack(trackId, updates) ==
    /\ tracks' = updateTrackTracks(tracks, trackId, updates)
    /\ UNCHANGED <<duration, currentTime, selectedClips, clipboard, now>>
    /\ Rendered
    /\ UNCHANGED <<playback, timeline>>
    /\ UNCHANGED exportVars
    /\ UNCHANGED audioVars
    /\ UNCHANGED <<tasks, resize>>

SetCurrentTimeMutant(time) ==
    /\ currentTime' = Max(0, time)
    /\ timeline' = [timeline EXCEPT !.currentTime = currentTime']
    /\ UNCHANGED <<tracks, duration, playback, selectedClips, clipboard, now>>
    /\ Rendered
    /\ UNCHANGED exportVars
    /\ UNCHANGED audioVars
    /\ UNCHANGED <<tasks, resize>>

SetCurrentTime(time) ==
    /\ currentTime' = Max(0, Min(time, duration))
    /\ timeline' = [timeline EXCEPT !.currentTime = currentTime']
    /\ UNCHANGED <<tracks, duration, playback, selectedClips, clipboard, now>>
    /\ Rendered
    /\ UNCHANGED exportVars
    /\ UNCHANGED audioVars
    /\ UNCHANGED <<tasks, resize>>

\* time passes: Date.now() never decreases
Tick ==
    /\ now < MaxNow
    /\ now' = now + 1
    /\ UNCHANGED <<tracks, duration, currentTime, playback, timeline,
                   selectedClips, clipboard, drawn>>
    /\ UNCHANGED exportVars
    /\ UNCHANGED audioVars
    /\ UNCHANGED <<tasks, resize>>

StoreNext ==
    \/ \E trackId \in TrackIdInputs, clip \in EditClipInputs :
          AddClip(trackId, clip)
    \/ \E clipId \in ClipIds(tracks), updates \in EditUpdateInputs :
          UpdateClip(clipId, updates)
    \/ \E clipId \in ClipIds(tracks), multiSelect \in BOOLEAN :
          SelectClip(clipId, multiSelect)
    \/ CopyClips
    \/ \E trackId \in TrackIdInputs, time \in Times : PasteClips(trackId, time)
    \/ Tick

\* copy and paste, with removal: one source clip
ClipboardNext ==
    \/ \E trackId \in TrackIdInputs : AddClip(trackId, v1)
    \/ \E clipId \in ClipIds(tracks) : RemoveClip(clipId)
    \/ \E clipId \in ClipIds(tracks) : UpdateClip(clipId, [endTime |-> 3])
    \/ \E clipId \in ClipIds(tracks), multiSelect \in BOOLEAN :
          SelectClip(clipId, multiSelect)
    \/ CopyClips
    \/ \E trackId \in TrackIdInputs, time \in Times : PasteClips(trackId, time)
    \/ Tick

PreviewNext ==
    \/ \E trackId \in TrackIdInputs, clip \in PreviewClipInputs :
          AddClip(trackId, clip)
    \/ \E clipId \in ClipIds(tracks), updates \in PreviewUpdateInputs :
          UpdateClip(clipId, updates)
    \/ \E i \in 1..Len(tracks) : \E updates \in TrackUpdateInputs(tracks[i]) :
          UpdateTrack(tracks[i].id, updates)
    \/ \E time \in Times \cup {-1} : SetCurrentTime(time)

Play ==
    /\ playback' = [playback EXCEPT !.isPlaying = TRUE]
    /\ timeline' = [timeline EXCEPT !.isPlaying = TRUE]
    /\ UNCHANGED <<tracks, duration, currentTime, selectedClips, clipboard,
                   now>>
    /\ Rendered
    /\ UNCHANGED exportVars
    /\ UNCHANGED audioVars
    /\ UNCHANGED <<tasks, resize>>

Pause ==
    /\ playback' = [playback EXCEPT !.isPlaying = FALSE]
    /\ timeline' = [timeline EXCEPT !.isPlaying = FALSE]
    /\ UNCHANGED <<tracks, duration, currentTime, selectedClips, clipboard,
                   now>>
    /\ Rendered
    /\ UNCHANGED exportVars
    /\ UNCHANGED audioVars
    /\ UNCHANGED <<tasks, resize>>

Stop ==
    /\ playback' = [playback EXCEPT !.isPlaying = FALSE]
    /\ currentTime' = 0
    /\ timeline' = [timeline EXCEPT !.isPlaying = FALSE, !.currentTime = 0]
    /\ UNCHANGED <<tracks, duration, selectedClips, clipboard, now>>
    /\ Rendered
    /\ UNCHANGED exportVars
    /\ UNCHANGED audioVars
    /\ UNCHANGED <<tasks, resize>>

SetPlaybackRate(rate) ==
    /\ playback' = [playback EXCEPT !.playbackRate = rate]
    /\ timeline' = [timeline EXCEPT !.playbackRate = rate]
    /\ UNCHANGED <<tracks, duration, currentTime, selectedClips, clipboard,
                   now>>
    /\ Rendered
    /\ UNCHANGED exportVars
    /\ UNCHANGED audioVars
    /\ UNCHANGED <<tasks, resize>>

\* set(() => ({ ...defaultState })): project and playback are the default's
NewProject ==
    /\ tracks' = defaultTracks
    /\ duration' = 0
    /\ currentTime' = 0
    /\ playback' = defaultPlayback
    /\ timeline' = defaultTimeline
    /\ selectedClips' = <<>>
    /\ clipboard' = <<>>
    /\ UNCHANGED now
    /\ Rendered
    /\ UNCHANGED exportVars
    /\ UNCHANGED audioVars
    /\ UNCHANGED <<tasks, resize>>

\* the rates of the playback menu
RateInputs == {1, 2}

\* the playhead, the playback and the clips of one track
PlaybackNext ==
    \/ \E time \in Times \cup {-1, 3} : SetCurrentTime(time)
    \/ Play
    \/ Pause
    \/ Stop
    \/ \E rate \in RateInputs : SetPlaybackRate(rate)
    \/ AddClip("video-track-1", v1)
    \/ \E clipId \in ClipIds(tracks) : RemoveClip(clipId)
    \/ \E clipId \in ClipIds(tracks) : UpdateClip(clipId, [endTime |-> 3])
    \/ \E clipId \in ClipIds(tracks) : SelectClip(clipId, FALSE)
    \/ CopyClips
    \/ PasteClips("video-track-1", 1)
    \/ NewProject

AddTrack(type) ==
    /\ Len(tracks) < MaxTracks
    /\ tracks' = addTrackTracks(tracks, type)
    /\ UNCHANGED <<duration, currentTime, selectedClips, clipboard, now>>
    /\ Rendered
    /\ UNCHANGED <<playback, timeline>>
    /\ UNCHANGED exportVars
    /\ UNCHANGED audioVars
    /\ UNCHANGED <<tasks, resize>>

RemoveTrack(trackId) ==
    /\ tracks' = removeTrackTracks(tracks, trackId)
    /\ UNCHANGED <<duration, currentTime, selectedClips, clipboard, now>>
    /\ Rendered
    /\ UNCHANGED <<playback, timeline>>
    /\ UNCHANGED exportVars
    /\ UNCHANGED audioVars
    /\ UNCHANGED <<tasks, resize>>

ReorderTracks(trackIds) ==
    /\ tracks' = reorderTracksTracks(tracks, trackIds)
    /\ UNCHANGED <<duration, currentTime, selectedClips, clipboard, now>>
    /\ Rendered
    /\ UNCHANGED <<playback, timeline>>
    /\ UNCHANGED exportVars
    /\ UNCHANGED audioVars
    /\ UNCHANGED <<tasks, resize>>

\* the types of the two buttons that add a track
TrackTypeInputs == {"video", "audio"}

\* the argument lists of reorderTracks: ids of the timeline in any order,
\* some left out, some repeated, some unknown
ReorderInputs(trks) ==
    LET ids == TrackIds(trks) \cup {"no-such-track"} IN
    {<<>>} \cup {<<a>> : a \in ids} \cup {<<a, b>> : a \in ids, b \in ids}
           \cup {<<a, b, c>> : a \in TrackIds(trks), b \in TrackIds(trks),
                                c \in TrackIds(trks)}

TracksNext ==
    \/ \E type \in TrackTypeInputs : AddTrack(type)
    \/ \E trackId \in TrackIds(tracks) \cup {"no-such-track"} :
          RemoveTrack(trackId)
    \/ \E trackId \in TrackIds(tracks), clip \in {v1, a1} :
          AddClip(trackId, clip)

ReorderNext ==
    \/ \E type \in TrackTypeInputs : AddTrack(type)
    \/ \E trackId \in TrackIds(tracks), clip \in {v1, a1} :
          AddClip(trackId, clip)
    \/ \E trackIds \in ReorderInputs(tracks) : ReorderTracks(trackIds)

\* adding, removing and updating clips while the playhead moves
RemoveNext ==
    \/ \E trackId \in TrackIdInputs, clip \in PreviewClipInputs :
          AddClip(trackId, clip)
    \/ \E clipId \in ClipIds(tracks) : RemoveClip(clipId)
    \/ \E clipId \in ClipIds(tracks) : UpdateClip(clipId, [endTime |-> 3])
    \/ \E clipId \in ClipIds(tracks) : SelectClip(clipId, FALSE)
    \/ \E time \in Times : SetCurrentTime(time)

vars == <<storeVars, exportVars, audioVars, tasks, resize>>

Init == StoreInit
Next == StoreNext
Spec == Init /\ [][Next]_vars

SpecClipboard == StoreInit /\ [][ClipboardNext]_vars

SpecPreview == StoreInit /\ [][PreviewNext]_vars

SpecRemove == StoreInit /\ [][RemoveNext]_vars

SpecPlayback == StoreInit /\ [][PlaybackNext]_vars

SpecTracks == StoreInit /\ [][TracksNext]_vars

SpecReorder == StoreInit /\ [][ReorderNext]_vars

----------------------------------------------------------------------------
(* The resize handles of a clip on the timeline: src/unnamed/part_000,      *)
(* TimelineClip.handleResizeStart                                           *)

\* deltaX / pixelsPerSecond of a mousemove, from the place of the mousedown
DeltaTimeInputs == {-3, -2, -1, 0, 1, 2}

ClipOf(clipId) ==
    CHOOSE c \in Range(FlatClips(tracks)) : c.id = clipId

\* mousedown on a handle: startTime and endTime of the clip as rendered are
\* captured, the listeners are added
HandleResizeStart(clipId, side) ==
    /\ resize = Null
    /\ resize' = [clipId |-> clipId, side |-> side,
                  startTime |-> ClipOf(clipId).startTime,
                  endTime |-> ClipOf(clipId).endTime]
    /\ UNCHANGED <<storeVars, exportVars, audioVars, tasks>>

\* handleMouseMove
HandleMouseMove(deltaTime) ==
    /\ resize # Null
    /\ resize.endTime + deltaTime <= MaxTime
    /\ IF resize.side = "left"
       THEN LET newStartTime == Max(0, resize.startTime + deltaTime) IN
            IF newStartTime < resize.endTime
            THEN UpdateClip(resize.clipId, [startTime |-> newStartTime])
            ELSE UNCHANGED vars
       ELSE LET newEndTime == Max(resize.startTime,
                                  resize.endTime + deltaTime) IN
            UpdateClip(resize.clipId, [endTime |-> newEndTime])

\* handleMouseUp: the listeners are removed
HandleMouseUp ==
    /\ resize # Null
    /\ resize' = Null
    /\ UNCHANGED <<storeVars, exportVars, audioVars, tasks>>

ResizeNext ==
    \/ \E trackId \in TrackIdInputs, clip \in {v1, a1} : AddClip(trackId, clip)
    \/ \E clipId \in ClipIds(tracks), side \in {"left", "right"} :
          HandleResizeStart(clipId, side)
    \/ \E deltaTime \in DeltaTimeInputs : HandleMouseMove(deltaTime)
    \/ HandleMouseUp

SpecResize == StoreInit /\ [][ResizeNext]_vars

----------------------------------------------------------------------------
(* The inputs of the export *)

xv1 == Clip(<<"xv1">>, "video", "v1.mp4", 0, 2 * TimeUnit, 0,
            StubDuration * TimeUnit, VolUnit, <<>>)
xv2 == Clip(<<"xv2">>, "video", "v2.mp4", TimeUnit, 3 * TimeUnit, TimeUnit,
            3 * TimeUnit, VolUnit,
            <<VideoEffect("invert", TRUE, 50), VideoEffect("blur", FALSE, 20),
              VideoEffect("brightness", TRUE, 70)>>)
xt1 == Clip(<<"xt1">>, "text", NoFile, 0, TimeUnit, 0, StubDuration * TimeUnit,
            VolUnit, <<>>)

\* clip A: full volume at [0s, 2s)
xa == Clip(<<"xa">>, "audio", "a.wav", 0, 2 * TimeUnit, 0,
           StubDuration * TimeUnit, VolUnit, <<>>)
\* clip B: volume v at [1s, 3s)
xb(v) == Clip(<<"xb">>, "audio", "b.wav", TimeUnit, 3 * TimeUnit, 0,
              StubDuration * TimeUnit, v, <<>>)
\* a trimmed clip at half volume with effects
xc == Clip(<<"xc">>, "audio", "c.wav", 0, 2 * TimeUnit, TimeUnit,
           3 * TimeUnit, 1,
           <<Effect("normalize", TRUE), Effect("lowpass", FALSE),
             Effect("echo", TRUE), Effect("highpass", TRUE)>>)
\* a clip trimmed to nothing
xd == Clip(<<"xd">>, "audio", "d.wav", 0, TimeUnit, TimeUnit, TimeUnit,
           VolUnit, <<Effect("reverb", TRUE)>>)

\* volumes 0, 0.5, 1 and 2
ExportVolumes == {0, 1, VolUnit, 2 * VolUnit}

\* the clips of the video track and of the audio track
ClipInputs ==
    {<<vs, <<>>>> : vs \in {<<>>, <<xt1>>, <<xv1>>, <<xv2, xv1>>}}
    \cup {<<<<>>, as>> : as \in {<<xa>>, <<xc, xa>>, <<xd>>}}
    \cup {<<<<>>, <<xb(v), xa>>>> : v \in ExportVolumes}
    \cup {<<<<xv1>>, <<xa>>>>, <<<<xv2, xv1>>, <<xc, xa>>>>}

\* a hidden video track and a muted audio track next to the usual ones
TrackFlagInputs(clips) ==
    IF clips = <<<<xv1>>, <<xa>>>> THEN BOOLEAN \X BOOLEAN
    ELSE {<<TRUE, FALSE>>}

\* a project with a hidden video track, a muted audio track, a text clip
\* and two audio tracks whose clips start in the other order
MixedTimeline ==
    <<Track("video-track-1", "video", FALSE, FALSE, <<xv2>>),
      Track("video-track-2", "video", FALSE, TRUE, <<xt1, xv1>>),
      Track("audio-track-1", "audio", TRUE, TRUE, <<xc>>),
      Track("audio-track-2", "audio", FALSE, TRUE, <<xb(VolUnit)>>),
      Track("audio-track-3", "audio", FALSE, TRUE, <<xa>>)>>

ExportTimelines ==
    {<<Track("video-track-1", "video", FALSE, flags[1], clips[1]),
       Track("audio-track-1", "audio", flags[2], TRUE, clips[2])>> :
        <<clips, flags>> \in
            UNION {{<<cs, fl>> : fl \in TrackFlagInputs(cs)} :
                      cs \in ClipInputs}}
    \cup {MixedTimeline}

ExportSettingsInputs ==
    {[format |-> "mp4", quality |-> "high"],
     [format |-> "webm", quality |-> "medium"]}

----------------------------------------------------------------------------
(* The export's actions *)

\* the project as edited, the panel as mounted; the transcoder may have been
\* loaded and the audio context resumed by the page in the meantime
ExportInit ==
    /\ tracks \in ExportTimelines
    /\ duration = SeqMaxOf([k \in 1..Len(FlatClips(tracks)) |->
                              FlatClips(tracks)[k].endTime], 0)
    /\ currentTime = 0
    /\ playback = defaultPlayback
    /\ timeline = defaultTimeline
    /\ selectedClips = <<>>
    /\ clipboard = <<>>
    /\ now = 0
    /\ drawn = VisibleClips(tracks, 0)
    /\ pc = "idle"
    /\ isExporting = FALSE
    /\ exportStatus = "idle"
    /\ exportProgress = 0
    /\ exportError = ""
    /\ exportSettings \in ExportSettingsInputs
    /\ audioContext \in {"null", "suspended", "running"}
    /\ isLoaded \in BOOLEAN
    /\ listeners = 0
    /\ execProgress = -1
    /\ calls = <<>>
    /\ loc = NoLocals
    /\ downloads = <<>>
    /\ fs = NoFiles
    /\ AudioIdle
    /\ tasks = NoTasks
    /\ resize = Null

\* the export goes on: the catch and the finally of handleExport do not run
Goto(next) ==
    /\ pc' = next
    /\ UNCHANGED <<isExporting, exportStatus, exportError>>

FailMutant(message) ==
    /\ pc' = "idle"
    /\ exportStatus' = "error"
    /\ exportError' = message
    /\ isExporting' = TRUE

\* a throw: the catch and the finally of handleExport
Fail(message) ==
    /\ pc' = "idle"
    /\ exportStatus' = "error"
    /\ exportError' = message
    /\ isExporting' = FALSE

\* the button is disabled while isExporting || exportStatus === 'completed'
HandleExport ==
    /\ pc = "idle"
    /\ ~isExporting
    /\ exportStatus # "completed"
    /\ listeners < MaxRuns
    /\ isExporting' = TRUE
    /\ exportStatus' = "processing"
    /\ exportProgress' = 0
    /\ exportError' = ""
    /\ pc' = "initVideo"
    /\ calls' = <<>>
    /\ loc' = NoLocals
    /\ execProgress' = -1
    /\ UNCHANGED <<exportSettings, audioContext, isLoaded, listeners, downloads>>
    /\ UNCHANGED storeVars
    /\ UNCHANGED fs
    /\ UNCHANGED audioVars
    /\ UNCHANGED <<tasks, resize>>

InitializeVideo ==
    /\ pc = "initVideo"
    /\ IF isLoaded
       THEN /\ Goto("initAudio")
            /\ UNCHANGED <<isLoaded, calls>>
       ELSE \E loaded \in BOOLEAN :
                /\ isLoaded' = loaded
                /\ calls' = calls \o
                      <<Call("call", "ffmpeg", "load", 0, 0, ""),
                        Call(IF loaded THEN "return" ELSE "failed",
                             "ffmpeg", "load", 0, 0, "")>>
                /\ IF loaded THEN Goto("initAudio")
                   ELSE Fail("Failed to load FFmpeg")
    /\ UNCHANGED <<exportProgress, exportSettings, audioContext, listeners,
                   execProgress, loc, downloads>>
    /\ UNCHANGED storeVars
    /\ UNCHANGED fs
    /\ UNCHANGED audioVars
    /\ UNCHANGED <<tasks, resize>>

InitializeAudio ==
    /\ pc = "initAudio"
    /\ IF audioContext = "null"
       THEN /\ Fail("Audio context not supported")
            /\ UNCHANGED <<audioContext, calls>>
       ELSE IF audioContext = "suspended"
       THEN /\ audioContext' = "running"
            /\ calls' = Append(calls, Call("call", "audio", "resume", 0, 0, ""))
            /\ Goto("collect")
       ELSE /\ Goto("collect")
            /\ UNCHANGED <<audioContext, calls>>
    /\ UNCHANGED <<exportProgress, exportSettings, isLoaded, listeners,
                   execProgress, loc, downloads>>
    /\ UNCHANGED storeVars
    /\ UNCHANGED fs
    /\ UNCHANGED audioVars
    /\ UNCHANGED <<tasks, resize>>

\* onProgress, the two collections and the check for no clips
Collect ==
    /\ pc = "collect"
    /\ listeners' = listeners + 1
    /\ loc' = [loc EXCEPT !.videoClips = videoClips(tracks),
                          !.audioClips = audioClips(tracks), !.i = 1]
    /\ IF loc'.videoClips = <<>> /\ loc'.audioClips = <<>>
       THEN Fail("No clips to export")
       ELSE Goto(IF loc'.videoClips # <<>> THEN "videoTrim" ELSE "audioLoad")
    /\ UNCHANGED <<exportProgress, exportSettings, audioContext, isLoaded,
                   execProgress, calls, downloads>>
    /\ UNCHANGED storeVars
    /\ UNCHANGED fs
    /\ UNCHANGED audioVars
    /\ UNCHANGED <<tasks, resize>>

\* a call of the transcoder that runs ffmpeg.exec
StartExec(op, clip, e, arg) ==
    /\ calls' = Append(calls, Call("call", "ffmpeg", op, clip, e, arg))
    /\ execProgress' = -1
    /\ Goto("exec")

\* processVideoClips: the blob of the clip's file, and the trim if needed
VideoTrim ==
    /\ pc = "videoTrim"
    /\ LET clip == loc.videoClips[loc.i] IN
       IF NeedsTrim(clip)
       THEN /\ loc' = [loc EXCEPT !.processedBlob = FileBlob(clip.file),
                                  !.pending = "trim"]
            /\ StartExec("trim", loc.i, 0, "")
       ELSE /\ loc' = [loc EXCEPT !.processedBlob = FileBlob(clip.file),
                                  !.e = 1]
            /\ Goto("videoEffect")
            /\ UNCHANGED <<calls, execProgress>>
    /\ UNCHANGED <<exportProgress, exportSettings, audioContext, isLoaded,
                   listeners, downloads>>
    /\ UNCHANGED storeVars
    /\ UNCHANGED fs
    /\ UNCHANGED audioVars
    /\ UNCHANGED <<tasks, resize>>

\* one turn of the loop over clip.effects, or its end and the push
VideoEffectStep ==
    /\ pc = "videoEffect"
    /\ LET clip == loc.videoClips[loc.i] IN
       IF loc.e > Len(clip.effects)
       THEN /\ loc' = [loc EXCEPT
                          !.processedFiles = Append(@, loc.processedBlob),
                          !.i = @ + 1]
            /\ Goto(IF loc.i < Len(loc.videoClips) THEN "videoTrim"
                    ELSE "merge")
            /\ UNCHANGED <<calls, execProgress>>
       ELSE IF ~EffectAt(clip, loc.e).enabled
               \/ getFFmpegFilterString(EffectAt(clip, loc.e)) = NoFilter
       THEN /\ loc' = [loc EXCEPT !.e = @ + 1]
            /\ Goto("videoEffect")
            /\ UNCHANGED <<calls, execProgress>>
       ELSE /\ loc' = [loc EXCEPT !.pending = "filter"]
            /\ StartExec("filter", loc.i, loc.e,
                         getFFmpegFilterString(EffectAt(clip, loc.e)).name)
    /\ UNCHANGED <<exportProgress, exportSettings, audioContext, isLoaded,
                   listeners, downloads>>
    /\ UNCHANGED storeVars
    /\ UNCHANGED fs
    /\ UNCHANGED audioVars
    /\ UNCHANGED <<tasks, resize>>

Merge ==
    /\ pc = "merge"
    /\ IF Len(loc.processedFiles) > 1
       THEN /\ loc' = [loc EXCEPT !.pending = "merge"]
            /\ StartExec("merge", 0, 0, "")
       ELSE /\ loc' = [loc EXCEPT !.finalVideoBlob = loc.processedFiles[1]]
            /\ Goto("videoDone")
            /\ UNCHANGED <<calls, execProgress>>
    /\ UNCHANGED <<exportProgress, exportSettings, audioContext, isLoaded,
                   listeners, downloads>>
    /\ UNCHANGED storeVars
    /\ UNCHANGED fs
    /\ UNCHANGED audioVars
    /\ UNCHANGED <<tasks, resize>>

\* setExportProgress(80)
VideoDone ==
    /\ pc = "videoDone"
    /\ exportProgress' = 80
    /\ loc' = [loc EXCEPT !.i = 1]
    /\ Goto(IF loc.audioClips # <<>> THEN "audioLoad" ELSE "combine")
    /\ UNCHANGED <<exportSettings, audioContext, isLoaded, listeners,
                   execProgress, calls, downloads>>
    /\ UNCHANGED storeVars
    /\ UNCHANGED fs
    /\ UNCHANGED audioVars
    /\ UNCHANGED <<tasks, resize>>

\* a 'progress' event of the exec in flight: every listener registered by
\* onProgress writes Math.min(progress * 0.8, 80)
ExecProgress(progress) ==
    /\ pc = "exec"
    /\ listeners > 0
    /\ progress > execProgress
    /\ execProgress' = progress
    /\ exportProgress' = VideoShare(progress)
    /\ UNCHANGED <<pc, isExporting, exportStatus, exportError, exportSettings,
                   audioContext, isLoaded, listeners, calls, loc, downloads>>
    /\ UNCHANGED storeVars
    /\ UNCHANGED fs
    /\ UNCHANGED audioVars
    /\ UNCHANGED <<tasks, resize>>

\* the file the exec in flight writes its output to
OutputName ==
    CASE loc.pending = "merge" -> "merged.mp4"
      [] loc.pending = "convert" ->
            IF exportSettings.format = "mp4" THEN "output.mp4"
            ELSE IF exportSettings.format = "webm" THEN "output.webm"
            ELSE "output.mov"
      [] OTHER -> "output.mp4"

\* what the exec in flight writes when ffmpeg succeeds
ExecOutput ==
    LET clip == loc.videoClips[loc.i] IN
    CASE loc.pending = "trim" ->
            trimVideo(loc.processedBlob, clip.trimStart, clip.trimEnd)
      [] loc.pending = "filter" ->
            applyVideoFilter(loc.processedBlob,
                             getFFmpegFilterString(EffectAt(clip, loc.e)))
      [] loc.pending = "merge" -> mergeVideos(loc.processedFiles)
      [] loc.pending = "mux" ->
            addAudioToVideo(loc.finalVideoBlob, loc.finalAudioBlob)
      [] loc.pending = "convert" ->
            convertToFormat(loc.finalBlob, exportSettings.format,
                            exportSettings.quality)

\* new Blob([data], { type }) of the data readFile(outputName) returns, and
\* the assignment of the blob by the caller
ExecRead(data) ==
    LET blob == [data EXCEPT !.type =
                    IF loc.pending = "convert"
                    THEN MimeType(exportSettings.format) ELSE "video/mp4"]
    IN  CASE loc.pending = "trim" ->
                [loc |-> [loc EXCEPT !.processedBlob = blob, !.e = 1],
                 pc |-> "videoEffect"]
          [] loc.pending = "filter" ->
                [loc |-> [loc EXCEPT !.processedBlob = blob, !.e = @ + 1],
                 pc |-> "videoEffect"]
          [] loc.pending = "merge" ->
                [loc |-> [loc EXCEPT !.finalVideoBlob = blob],
                 pc |-> "videoDone"]
          [] loc.pending = "mux" ->
                [loc |-> [loc EXCEPT !.finalBlob = blob], pc |-> "convert"]
          [] loc.pending = "convert" ->
                [loc |-> [loc EXCEPT !.finalBlob = blob], pc |-> "deliver"]

\* ffmpeg.exec resolves with 0: the output file is written and read back
ExecDone ==
    /\ pc = "exec"
    /\ fs' = [fs EXCEPT ![OutputName] = ExecOutput]
    /\ loc' = [ExecRead(ExecOutput).loc EXCEPT !.pending = ""]
    /\ Goto(ExecRead(ExecOutput).pc)
    /\ calls' = Append(calls, Call("return", "ffmpeg", loc.pending, 0, 0, ""))
    /\ execProgress' = -1
    /\ UNCHANGED <<exportProgress, exportSettings, audioContext, isLoaded,
                   listeners, downloads>>
    /\ UNCHANGED storeVars
    /\ UNCHANGED audioVars
    /\ UNCHANGED <<tasks, resize>>

\* ffmpeg.exec resolves with a code other than 0, which the caller does not
\* look at, and writes no output: readFile(outputName) throws when no file of
\* that name is there, and returns the file an earlier exec left otherwise
ExecFail ==
    /\ pc = "exec"
    /\ calls' = Append(calls, Call("failed", "ffmpeg", loc.pending, 0, 0, ""))
    /\ IF fs[OutputName] = Null
       THEN /\ Fail("ErrnoError: FS error")
            /\ loc' = [loc EXCEPT !.pending = ""]
       ELSE /\ loc' = [ExecRead(fs[OutputName]).loc EXCEPT !.pending = ""]
            /\ Goto(ExecRead(fs[OutputName]).pc)
    /\ execProgress' = -1
    /\ UNCHANGED <<exportProgress, exportSettings, audioContext, isLoaded,
                   listeners, downloads, fs>>
    /\ UNCHANGED storeVars
    /\ UNCHANGED audioVars
    /\ UNCHANGED <<tasks, resize>>

\* a call of the audio processor, awaited
StartAudio(op, clip, e, arg) ==
    /\ calls' = Append(calls, Call("call", "audio", op, clip, e, arg))
    /\ Goto("audioWait")

\* processAudioClips: loadAudioFile(clip.file)
AudioLoad ==
    /\ pc = "audioLoad"
    /\ loc' = [loc EXCEPT !.pending = "load"]
    /\ StartAudio("load", loc.i, 0, loc.audioClips[loc.i].file)
    /\ UNCHANGED <<exportProgress, exportSettings, audioContext, isLoaded,
                   listeners, execProgress, downloads>>
    /\ UNCHANGED storeVars
    /\ UNCHANGED fs
    /\ UNCHANGED audioVars
    /\ UNCHANGED <<tasks, resize>>

AudioTrim ==
    /\ pc = "audioTrim"
    /\ IF NeedsTrim(loc.audioClips[loc.i])
       THEN /\ loc' = [loc EXCEPT !.pending = "trim"]
            /\ StartAudio("trim", loc.i, 0, "")
       ELSE /\ Goto("audioVolume")
            /\ UNCHANGED <<loc, calls>>
    /\ UNCHANGED <<exportProgress, exportSettings, audioContext, isLoaded,
                   listeners, execProgress, downloads>>
    /\ UNCHANGED storeVars
    /\ UNCHANGED fs
    /\ UNCHANGED audioVars
    /\ UNCHANGED <<tasks, resize>>

AudioVolume ==
    /\ pc = "audioVolume"
    /\ IF loc.audioClips[loc.i].volume # VolUnit
       THEN /\ loc' = [loc EXCEPT !.pending = "volume"]
            /\ StartAudio("volume", loc.i, 0, "")
       ELSE /\ loc' = [loc EXCEPT !.e = 1]
            /\ Goto("audioEffect")
            /\ UNCHANGED calls
    /\ UNCHANGED <<exportProgress, exportSettings, audioContext, isLoaded,
                   listeners, execProgress, downloads>>
    /\ UNCHANGED storeVars
    /\ UNCHANGED fs
    /\ UNCHANGED audioVars
    /\ UNCHANGED <<tasks, resize>>

\* one turn of the loop over clip.effects, or its end
AudioEffectStep ==
    /\ pc = "audioEffect"
    /\ LET clip == loc.audioClips[loc.i] IN
       IF loc.e > Len(clip.effects)
       THEN /\ Goto("audioPush")
            /\ UNCHANGED <<loc, calls>>
       ELSE IF ~EffectAt(clip, loc.e).enabled
               \/ ~AudioEffectHandled(EffectAt(clip, loc.e).type)
       THEN /\ loc' = [loc EXCEPT !.e = @ + 1]
            /\ Goto("audioEffect")
            /\ UNCHANGED calls
       ELSE /\ loc' = [loc EXCEPT !.pending = "effect"]
            /\ StartAudio("effect", loc.i, loc.e, EffectAt(clip, loc.e).type)
    /\ UNCHANGED <<exportProgress, exportSettings, audioContext, isLoaded,
                   listeners, execProgress, downloads>>
    /\ UNCHANGED storeVars
    /\ UNCHANGED fs
    /\ UNCHANGED audioVars
    /\ UNCHANGED <<tasks, resize>>

\* audioBuffers.push({ buffer, startTime, volume: clip.volume || 1 })
AudioPush ==
    /\ pc = "audioPush"
    /\ LET clip == loc.audioClips[loc.i] IN
       loc' = [loc EXCEPT
                  !.audioBuffers =
                      Append(@, [buffer |-> loc.audioBuffer,
                                 startTime |-> clip.startTime,
                                 volume |-> VolumeOrOne(clip)]),
                  !.i = @ + 1]
    /\ calls' = Append(calls, Call("push", "local", "push", loc.i, 0, ""))
    /\ Goto(IF loc.i < Len(loc.audioClips) THEN "audioLoad" ELSE "mix")
    /\ UNCHANGED <<exportProgress, exportSettings, audioContext, isLoaded,
                   listeners, execProgress, downloads>>
    /\ UNCHANGED storeVars
    /\ UNCHANGED fs
    /\ UNCHANGED audioVars
    /\ UNCHANGED <<tasks, resize>>

Mix ==
    /\ pc = "mix"
    /\ loc' = [loc EXCEPT !.pending = "mix"]
    /\ StartAudio("mix", 0, 0, "")
    /\ UNCHANGED <<exportProgress, exportSettings, audioContext, isLoaded,
                   listeners, execProgress, downloads>>
    /\ UNCHANGED storeVars
    /\ UNCHANGED fs
    /\ UNCHANGED audioVars
    /\ UNCHANGED <<tasks, resize>>

Wav ==
    /\ pc = "wav"
    /\ loc' = [loc EXCEPT !.pending = "wav"]
    /\ StartAudio("wav", 0, 0, "")
    /\ UNCHANGED <<exportProgress, exportSettings, audioContext, isLoaded,
                   listeners, execProgress, downloads>>
    /\ UNCHANGED storeVars
    /\ UNCHANGED fs
    /\ UNCHANGED audioVars
    /\ UNCHANGED <<tasks, resize>>

\* what the awaited call of the audio processor returns
AudioResults ==
    LET clip == loc.audioClips[loc.i] IN
    CASE loc.pending = "load" ->
            {[loc |-> [loc EXCEPT !.audioBuffer = FileAudio(clip.file)],
              pc |-> "audioTrim"]}
      [] loc.pending = "trim" ->
            {[loc |-> [loc EXCEPT !.audioBuffer =
                         TrimAudio(loc.audioBuffer, clip.trimStart,
                                   clip.trimEnd)],
              pc |-> "audioVolume"]}
      [] loc.pending = "volume" ->
            {[loc |-> [loc EXCEPT !.audioBuffer =
                         ChangeVolume(loc.audioBuffer, clip.volume),
                         !.e = 1],
              pc |-> "audioEffect"]}
      [] loc.pending = "effect" ->
            {[loc |-> [loc EXCEPT !.audioBuffer = out, !.e = @ + 1],
              pc |-> "audioEffect"] :
                out \in AudioEffectOutcomes(EffectAt(clip, loc.e).type,
                                            loc.audioBuffer)}
      [] loc.pending = "mix" ->
            {[loc |-> [loc EXCEPT !.mixedBuffer =
                         MixAudioBuffers(loc.audioBuffers)],
              pc |-> "wav"]}
      [] loc.pending = "wav" ->
            {[loc |-> [loc EXCEPT !.finalAudioBlob =
                         ExportToWav(loc.mixedBuffer)],
              pc |-> "audioDone"]}

\* the awaited call throws: decodeAudioData rejects the file, or createBuffer
\* rejects the length
AudioThrows ==
    LET clip == loc.audioClips[loc.i] IN
    CASE loc.pending = "load" -> TRUE
      [] loc.pending = "trim" ->
            TrimAudio(loc.audioBuffer, clip.trimStart, clip.trimEnd)
                = AudioError
      [] loc.pending = "mix" -> MixAudioBuffers(loc.audioBuffers) = AudioError
      [] OTHER -> FALSE

AudioMustThrow == loc.pending \in {"trim", "mix"} /\ AudioThrows

AudioReturn ==
    /\ pc = "audioWait"
    /\ ~AudioMustThrow
    /\ \E result \in AudioResults :
        /\ loc' = [result.loc EXCEPT !.pending = ""]
        /\ Goto(result.pc)
    /\ calls' = Append(calls, Call("return", "audio", loc.pending, 0, 0, ""))
    /\ UNCHANGED <<exportProgress, exportSettings, audioContext, isLoaded,
                   listeners, execProgress, downloads>>
    /\ UNCHANGED storeVars
    /\ UNCHANGED fs
    /\ UNCHANGED audioVars
    /\ UNCHANGED <<tasks, resize>>

AudioThrow ==
    /\ pc = "audioWait"
    /\ AudioThrows
    /\ Fail(IF loc.pending = "load" THEN "EncodingError" ELSE AudioError.error)
    /\ loc' = [loc EXCEPT !.pending = ""]
    /\ calls' = Append(calls, Call("failed", "audio", loc.pending, 0, 0, ""))
    /\ UNCHANGED <<exportProgress, exportSettings, audioContext, isLoaded,
                   listeners, execProgress, downloads>>
    /\ UNCHANGED storeVars
    /\ UNCHANGED fs
    /\ UNCHANGED audioVars
    /\ UNCHANGED <<tasks, resize>>

\* setExportProgress(90)
AudioDone ==
    /\ pc = "audioDone"
    /\ exportProgress' = 90
    /\ Goto("combine")
    /\ UNCHANGED <<exportSettings, audioContext, isLoaded, listeners,
                   execProgress, calls, loc, downloads>>
    /\ UNCHANGED storeVars
    /\ UNCHANGED fs
    /\ UNCHANGED audioVars
    /\ UNCHANGED <<tasks, resize>>

\* the mux of video and audio when both exist
Combine ==
    /\ pc = "combine"
    /\ IF loc.finalVideoBlob # Null /\ loc.finalAudioBlob # Null
       THEN /\ loc' = [loc EXCEPT !.pending = "mux"]
            /\ StartExec("mux", 0, 0, "")
       ELSE /\ loc' = [loc EXCEPT !.finalBlob =
                          IF loc.finalVideoBlob # Null
                          THEN loc.finalVideoBlob ELSE loc.finalAudioBlob]
            /\ Goto("convert")
            /\ UNCHANGED <<calls, execProgress>>
    /\ UNCHANGED <<exportProgress, exportSettings, audioContext, isLoaded,
                   listeners, downloads>>
    /\ UNCHANGED storeVars
    /\ UNCHANGED fs
    /\ UNCHANGED audioVars
    /\ UNCHANGED <<tasks, resize>>

Convert ==
    /\ pc = "convert"
    /\ IF exportSettings.format # "mp4" \/ exportSettings.quality # "high"
       THEN /\ loc' = [loc EXCEPT !.pending = "convert"]
            /\ StartExec("convert", 0, 0, exportSettings.format)
       ELSE /\ Goto("deliver")
            /\ UNCHANGED <<loc, calls, execProgress>>
    /\ UNCHANGED <<exportProgress, exportSettings, audioContext, isLoaded,
                   listeners, downloads>>
    /\ UNCHANGED storeVars
    /\ UNCHANGED fs
    /\ UNCHANGED audioVars
    /\ UNCHANGED <<tasks, resize>>

\* setExportProgress(95) and downloadBlob
Deliver ==
    /\ pc = "deliver"
    /\ exportProgress' = 95
    /\ downloads' = Append(downloads, [blob |-> loc.finalBlob,
                                       format |-> exportSettings.format])
    /\ Goto("complete")
    /\ UNCHANGED <<exportSettings, audioContext, isLoaded, listeners,
                   execProgress, calls, loc>>
    /\ UNCHANGED storeVars
    /\ UNCHANGED fs
    /\ UNCHANGED audioVars
    /\ UNCHANGED <<tasks, resize>>

\* setExportProgress(100), and the end of handleExport
Complete ==
    /\ pc = "complete"
    /\ exportProgress' = 100
    /\ exportStatus' = "completed"
    /\ isExporting' = FALSE
    /\ pc' = "idle"
    /\ UNCHANGED <<exportError, exportSettings, audioContext, isLoaded,
                   listeners, execProgress, calls, loc, downloads>>
    /\ UNCHANGED storeVars
    /\ UNCHANGED fs
    /\ UNCHANGED audioVars
    /\ UNCHANGED <<tasks, resize>>

ExportNext ==
    \/ HandleExport
    \/ InitializeVideo
    \/ InitializeAudio
    \/ Collect
    \/ VideoTrim
    \/ VideoEffectStep
    \/ Merge
    \/ VideoDone
    \/ \E progress \in ProgressEvents : ExecProgress(progress)
    \/ ExecDone
    \/ ExecFail
    \/ AudioLoad
    \/ AudioTrim
    \/ AudioVolume
    \/ AudioEffectStep
    \/ AudioPush
    \/ Mix
    \/ Wav
    \/ AudioReturn
    \/ AudioThrow
    \/ AudioDone
    \/ Combine
    \/ Convert
    \/ Deliver
    \/ Complete

SpecExport == ExportInit /\ [][ExportNext]_vars

----------------------------------------------------------------------------
(* The calls of the audio processor: src/unnamed/part_001 *)

\* buffers as decodeAudioData or createBuffer make them: mono and stereo,
\* silent, of another sample rate
b1 == AudioBuffer(FileRate, << <<40, -80, 20, 60>> >>)
b2 == AudioBuffer(FileRate, << <<10, 20>>, <<-30, 50>> >>)
b3 == AudioBuffer(FileRate, << <<0, 0>> >>)
b4 == AudioBuffer(1, << <<50, -24>> >>)
b5 == AudioBuffer(FileRate, << <<80, 90, -60>> >>)
b6 == AudioBuffer(300, << <<100, -100, 37>>, <<150, -150, -1>> >>)

HeapInputs ==
    {<<b1, b2>>, <<b1, b4>>, <<b3, b1>>, <<b5, b1>>, <<b2, b4>>}

\* times in units of 1/TimeUnit second, start before end
TrimInputs == {<<0, 1>>, <<0, 2>>, <<1, 2>>, <<1, 3>>, <<2, 6>>}

VolumeInputs == {0, 1, VolUnit, 2 * VolUnit}

FadeInputs == {0, TimeUnit}

\* the entries of a mix: a buffer of the heap, a start time and a volume
MixEntryInputs ==
    {[buffer |-> id, startTime |-> t, volume |-> v] :
        id \in 1..Len(heap), t \in {0, TimeUnit}, v \in {1, VolUnit}}

MixInputs ==
    {<<>>} \cup {<<x>> : x \in MixEntryInputs}
           \cup {<<x, y>> : x \in MixEntryInputs, y \in MixEntryInputs}

\* the { buffer, startTime, volume } objects of the entries
Resolve(entries) ==
    [k \in 1..Len(entries) |->
        [buffer |-> heap[entries[k].buffer],
         startTime |-> entries[k].startTime,
         volume |-> entries[k].volume]]

AudioInit ==
    /\ StoreDefault
    /\ ExportIdle
    /\ heap \in HeapInputs
    /\ call = NoCall
    /\ returned = 0
    /\ wav = <<>>
    /\ tasks = NoTasks
    /\ resize = Null

\* the call returns the buffer createBuffer made, or throws
ReturnNew(out) ==
    IF out = AudioError
    THEN heap' = heap /\ returned' = 0
    ELSE heap' = Append(heap, out) /\ returned' = Len(heap) + 1

TrimCall(id, startTime, endTime) ==
    /\ Len(heap) < MaxBuffers
    /\ call' = [op |-> "trim", buffers |-> {id}, startTime |-> startTime,
                endTime |-> endTime]
    /\ ReturnNew(TrimAudio(heap[id], startTime, endTime))
    /\ UNCHANGED <<storeVars, exportVars, wav, tasks, resize>>

VolumeCall(id, volumeMultiplier) ==
    /\ Len(heap) < MaxBuffers
    /\ call' = [op |-> "volume", buffers |-> {id},
                volume |-> volumeMultiplier]
    /\ ReturnNew(ChangeVolume(heap[id], volumeMultiplier))
    /\ UNCHANGED <<storeVars, exportVars, wav, tasks, resize>>

NormalizeCall(id) ==
    /\ Len(heap) < MaxBuffers
    /\ call' = [op |-> "normalize", buffers |-> {id}]
    /\ IF NormalizeReturnsInput(heap[id])
       THEN heap' = heap /\ returned' = id
       ELSE ReturnNew(NormalizeAudio(heap[id]))
    /\ UNCHANGED <<storeVars, exportVars, wav, tasks, resize>>

FadeInCall(id, fadeDuration) ==
    /\ Len(heap) < MaxBuffers
    /\ call' = [op |-> "fadeIn", buffers |-> {id}, duration |-> fadeDuration]
    /\ ReturnNew(ApplyFadeIn(heap[id], fadeDuration))
    /\ UNCHANGED <<storeVars, exportVars, wav, tasks, resize>>

FadeOutCall(id, fadeDuration) ==
    /\ Len(heap) < MaxBuffers
    /\ call' = [op |-> "fadeOut", buffers |-> {id}, duration |-> fadeDuration]
    /\ ReturnNew(ApplyFadeOut(heap[id], fadeDuration))
    /\ UNCHANGED <<storeVars, exportVars, wav, tasks, resize>>

MixCall(entries) ==
    /\ Len(heap) < MaxBuffers
    /\ call' = [op |-> "mix",
                buffers |-> {entries[k].buffer : k \in 1..Len(entries)},
                entries |-> entries]
    /\ ReturnNew(MixAudioBuffers(Resolve(entries)))
    /\ UNCHANGED <<storeVars, exportVars, wav, tasks, resize>>

\* exportToWav(buffer): returns a Blob, creates no buffer
WavCall(id) ==
    /\ call' = [op |-> "wav", buffers |-> {id}]
    /\ wav' = WavBytes(heap[id])
    /\ returned' = 0
    /\ UNCHANGED <<storeVars, exportVars, heap, tasks, resize>>

AudioNext ==
    \/ \E id \in 1..Len(heap), t \in TrimInputs : TrimCall(id, t[1], t[2])
    \/ \E id \in 1..Len(heap), v \in VolumeInputs : VolumeCall(id, v)
    \/ \E id \in 1..Len(heap) : NormalizeCall(id)
    \/ \E id \in 1..Len(heap), d \in FadeInputs : FadeInCall(id, d)
    \/ \E id \in 1..Len(heap), d \in FadeInputs : FadeOutCall(id, d)
    \/ \E entries \in MixInputs : MixCall(entries)

SpecAudio == AudioInit /\ [][AudioNext]_vars

\* the buffers the export hands to exportToWav
WavHeapInputs == {<<b6, b3>>, <<b2, b4>>, <<b5, b1>>}

WavInit ==
    /\ StoreDefault
    /\ ExportIdle
    /\ heap \in WavHeapInputs
    /\ call = NoCall
    /\ returned = 0
    /\ wav = <<>>
    /\ tasks = NoTasks
    /\ resize = Null

WavTrimInputs == {<<0, 1>>, <<2, 6>>}

WavVolumeInputs == {0, 2 * VolUnit}

\* the calls of processAudioClips that make the buffer, then exportToWav
WavNext ==
    \/ \E id \in 1..Len(heap), t \in WavTrimInputs : TrimCall(id, t[1], t[2])
    \/ \E id \in 1..Len(heap), v \in WavVolumeInputs : VolumeCall(id, v)
    \/ \E id \in 1..Len(heap) : WavCall(id)

SpecWav == WavInit /\ [][WavNext]_vars

----------------------------------------------------------------------------
(* The callers of the singleton transcoder, side by side: the page's        *)
(* background initialization (src/src/app/page.tsx), an upload to the media *)
(* library (src/unnamed/part_000, MediaLibrary) and an export               *)
(* (src/src/components/ExportPanel.tsx).  A caller goes on at each await;   *)
(* the transcoder's worker handles one message (load, writeFile, exec,      *)
(* readFile) at a time.  Every exec succeeds here.                          *)

\* the files dropped on the media library
UploadFiles ==
    {[type |-> "video/mp4", name |-> "u.mp4"],
     [type |-> "video/quicktime", name |-> "u.mov"]}

\* file.name.split('.').pop()
Extension(name) ==
    IF name \in {"v1.mp4", "u.mp4"} THEN "mp4" ELSE "mov"

\* `input.${file.name.split('.').pop()}`
InputNameOf(name) == IF Extension(name) = "mp4" THEN "input.mp4" ELSE "input.mov"

\* the operations each caller awaits one after the other; an operation on
\* Previous is made on a File of the blob the operation before returned
Previous == [type |-> "previous"]

Operation(op, name, content) == [op |-> op, name |-> name, content |-> content]

PagePrograms == {<<Operation("initialize", "", Null)>>}

LibraryPrograms ==
    {<<>>} \cup
    {<<Operation("initialize", "", Null),
       Operation("thumbnail", file.name, file),
       Operation("info", file.name, file)>> : file \in UploadFiles}

ExportPrograms ==
    {<<>>,
     <<Operation("initialize", "", Null),
       Operation("trim", "v1.mp4", FileBlob("v1.mp4")),
       Operation("filter", "v1.mp4", Previous)>>}

\* the operation a caller is in
Current(p) == tasks[p].program[tasks[p].n]

Running(p) == tasks[p].n <= Len(tasks[p].program)

\* the name of the file an operation reads back, Null if it reads none
OutputNameOf(operation) ==
    CASE operation.op \in {"trim", "filter"} -> "output.mp4"
      [] operation.op = "thumbnail" -> "thumbnail.jpg"
      [] OTHER -> "none"

\* what the exec of an operation makes of the input file it finds
OutputOf(operation, input) ==
    CASE operation.op = "trim" -> trimVideo(input, 0, TimeUnit)
      [] operation.op = "filter" ->
            applyVideoFilter(input, getFFmpegFilterString(
                                        VideoEffect("invert", TRUE, 50)))
      [] operation.op = "thumbnail" -> generateThumbnail(input, 1)

\* the type of the Blob an operation makes of the data it read
BlobTypeOf(operation) ==
    IF operation.op = "thumbnail" THEN "image/jpeg" ELSE "video/mp4"

TranscoderInit ==
    /\ StoreDefault
    /\ ExportIdle
    /\ AudioIdle
    /\ resize = Null
    /\ \E page \in PagePrograms, library \in LibraryPrograms,
          export \in ExportPrograms :
            tasks = [p \in Procs |->
                        [NoTask EXCEPT !.program =
                            CASE p = "page" -> page
                              [] p = "library" -> library
                              [] p = "export" -> export]]

\* what the task actions leave alone
TaskFrame ==
    /\ UNCHANGED <<pc, isExporting, exportStatus, exportProgress, exportError,
                   exportSettings, audioContext, listeners, execProgress,
                   loc, downloads>>
    /\ UNCHANGED storeVars
    /\ UNCHANGED audioVars
    /\ UNCHANGED resize

\* the caller goes on to its next operation
NextOperation(p, result) ==
    [tasks EXCEPT ![p].n = @ + 1, ![p].pc = "call", ![p].result = result]

\* the operation is called: `if (this.isLoaded) return` of initialize,
\* `if (!this.isLoaded) await this.initialize()` of the others; initialize
\* awaits toBlobURL before it calls ffmpeg.load
TaskBegin(p) ==
    /\ Running(p)
    /\ tasks[p].pc = "call"
    /\ tasks' =
         IF ~isLoaded THEN [tasks EXCEPT ![p].pc = "toBlobURL"]
         ELSE IF Current(p).op = "initialize"
         THEN NextOperation(p, tasks[p].result)
         ELSE [tasks EXCEPT ![p].pc = "writeFile"]
    /\ UNCHANGED <<isLoaded, calls, fs>>
    /\ TaskFrame

\* await this.ffmpeg.load(...)
TaskLoad(p) ==
    /\ Running(p)
    /\ tasks[p].pc = "toBlobURL"
    /\ calls' = Append(calls, Call("call", "ffmpeg", "load", 0, 0, p))
    /\ tasks' = [tasks EXCEPT ![p].pc = "load"]
    /\ UNCHANGED <<isLoaded, fs>>
    /\ TaskFrame

\* the load resolves: this.isLoaded = true
TaskLoaded(p) ==
    /\ Running(p)
    /\ tasks[p].pc = "load"
    /\ isLoaded' = TRUE
    /\ calls' = Append(calls, Call("return", "ffmpeg", "load", 0, 0, p))
    /\ tasks' =
         IF Current(p).op = "initialize"
         THEN NextOperation(p, tasks[p].result)
         ELSE [tasks EXCEPT ![p].pc = "writeFile"]
    /\ UNCHANGED fs
    /\ TaskFrame

\* the load rejects: initialize rethrows and the caller's catch ends it
TaskLoadFailed(p) ==
    /\ Running(p)
    /\ tasks[p].pc = "load"
    /\ calls' = Append(calls, Call("failed", "ffmpeg", "load", 0, 0, p))
    /\ tasks' = [tasks EXCEPT ![p].n = Len(tasks[p].program) + 1,
                              ![p].pc = "call", ![p].failed = TRUE]
    /\ UNCHANGED <<isLoaded, fs>>
    /\ TaskFrame

\* await this.ffmpeg.writeFile(inputName, await fetchFile(file))
TaskWriteFile(p) ==
    /\ Running(p)
    /\ tasks[p].pc = "writeFile"
    /\ LET file == IF Current(p).content = Previous THEN tasks[p].result
                   ELSE Current(p).content
       IN  /\ fs' = [fs EXCEPT ![InputNameOf(Current(p).name)] = file]
           /\ tasks' = [tasks EXCEPT ![p].pc = "exec", ![p].file = file]
    /\ UNCHANGED <<isLoaded, calls>>
    /\ TaskFrame

\* await this.ffmpeg.exec([...]): ffmpeg reads the file of the input name
\* and writes the file of the output name; extractVideoInfo writes none and
\* returns
TaskExec(p) ==
    /\ Running(p)
    /\ tasks[p].pc = "exec"
    /\ IF Current(p).op = "info"
       THEN /\ tasks' = NextOperation(p, tasks[p].result)
            /\ UNCHANGED fs
       ELSE /\ fs' = [fs EXCEPT ![OutputNameOf(Current(p))] =
                         OutputOf(Current(p),
                                  fs[InputNameOf(Current(p).name)])]
            /\ tasks' = [tasks EXCEPT ![p].pc = "readFile"]
    /\ UNCHANGED <<isLoaded, calls>>
    /\ TaskFrame

\* const data = await this.ffmpeg.readFile(outputName) and the Blob of it
TaskReadFile(p) ==
    /\ Running(p)
    /\ tasks[p].pc = "readFile"
    /\ tasks' = NextOperation(p, [fs[OutputNameOf(Current(p))] EXCEPT
                                     !.type = BlobTypeOf(Current(p))])
    /\ UNCHANGED <<isLoaded, calls, fs>>
    /\ TaskFrame

TranscoderNext ==
    \E p \in Procs :
        \/ TaskBegin(p)
        \/ TaskLoad(p)
        \/ TaskLoaded(p)
        \/ TaskLoadFailed(p)
        \/ TaskWriteFile(p)
        \/ TaskExec(p)
        \/ TaskReadFile(p)

SpecTranscoder == TranscoderInit /\ [][TranscoderNext]_vars

----------------------------------------------------------------------------
(* Claims about the export *)

\* C1: during one export run, from the click on the export button to the end
\* of handleExport, the values written to the export progress never
\* decrease, whatever progress events the transcoder emits during its execs.
C1_ProgressMonotone ==
    [][pc # "idle" => exportProgress' >= exportProgress]_vars

\* C2: with clip A (volume 1, start 0s) and clip B (volume v, start 1s) on
\* the audio track, every sample of the mixed buffer in the overlap of the
\* two clips is A(t) + v * B(t - 1s): B is scaled by its volume once.
C2_VolumeAppliedOnce ==
    \A v \in ExportVolumes :
        (loc.audioClips = <<xa, xb(v)>> /\ loc.mixedBuffer # Null) =>
            LET A == FileAudio(xa.file).channelData[1]
                B == FileAudio(xb(v).file).channelData[1]
                start == SampleAt(xb(v).startTime, FileRate)
            IN  \A n \in start..(Len(A) - 1) :
                    loc.mixedBuffer.channelData[1][n + 1]
                        = A[n + 1] + Scale(B[n - start + 1], v)

NoExportClips == videoClips(tracks) = <<>> /\ audioClips(tracks) = <<>>

\* C3: an export of a timeline with no clip on a visible video track and no
\* clip on an un-muted audio track ends with the error 'No clips to export',
\* and no call of the transcoder or of the audio subsystem was made before.
C3_NoClipsErrorFirst ==
    (NoExportClips /\ pc = "idle" /\ exportStatus # "idle") =>
        /\ exportStatus = "error"
        /\ exportError = "No clips to export"
        /\ calls = <<>>

\* the steps of the audio clips in the log: the calls of the audio processor
\* for a clip, and the clip's push onto audioBuffers
IsAudioStep(c) ==
    c.clip > 0 /\ c.svc \in {"audio", "local"} /\ c.ev \in {"call", "push"}

StepRank(c) ==
    CASE c.op = "load" -> 0
      [] c.op = "trim" -> 1
      [] c.op = "volume" -> 2
      [] c.op = "effect" -> 2 + c.e
      [] c.op = "push" -> 3 + Len(loc.audioClips[c.clip].effects)

\* C10: the steps of each audio clip are made in the order load, trim,
\* volume, effects in the order of the clip's effect list and never a
\* disabled one, push to the mix; a call of the audio processor is followed
\* by its return, or by its throw, before anything else is called; the mix
\* is called after
\* every clip was pushed, and no step of a clip follows it.
C10_AudioStepsInOrder ==
    /\ \A k, m \in 1..Len(calls) :
        (k < m /\ IsAudioStep(calls[k]) /\ IsAudioStep(calls[m])
            /\ calls[k].clip = calls[m].clip)
        => StepRank(calls[k]) < StepRank(calls[m])
    /\ \A m \in 1..Len(calls) :
        (IsAudioStep(calls[m]) /\ calls[m].op # "load")
        => \E k \in 1..(m - 1) :
              IsAudioStep(calls[k]) /\ calls[k].op = "load"
                /\ calls[k].clip = calls[m].clip
    /\ \A k \in 1..Len(calls) :
        (IsAudioStep(calls[k]) /\ calls[k].op = "effect")
        => LET effect == loc.audioClips[calls[k].clip].effects[calls[k].e]
           IN  effect.enabled /\ effect.type = calls[k].arg
    /\ \A k \in 1..(Len(calls) - 1) :
        (calls[k].svc = "audio" /\ calls[k].ev = "call"
            /\ calls[k].op # "resume")
        => calls[k + 1].ev \in {"return", "failed"}
             /\ calls[k + 1].svc = "audio"
             /\ calls[k + 1].op = calls[k].op
    /\ \A m \in 1..Len(calls) :
        (calls[m].svc = "audio" /\ calls[m].op = "mix" /\ calls[m].ev = "call")
        => /\ \A i \in 1..Len(loc.audioClips) :
                \E k \in 1..(m - 1) :
                    calls[k].op = "push" /\ calls[k].clip = i
           /\ \A k \in (m + 1)..Len(calls) : calls[k].clip = 0

\* the mix was called after a clip went through a trim, a volume change and
\* two effects, one effect of its list being disabled, next to another clip
C10_Witness ==
    /\ Len(loc.audioClips) >= 2
    /\ \E m \in 1..Len(calls) : calls[m].op = "mix" /\ calls[m].ev = "call"
    /\ \E i \in 1..Len(loc.audioClips) :
        /\ \E k \in 1..Len(calls) : calls[k].op = "trim" /\ calls[k].clip = i
        /\ \E k \in 1..Len(calls) : calls[k].op = "volume" /\ calls[k].clip = i
        /\ \E k, m \in 1..Len(calls) :
            /\ k < m
            /\ calls[k].op = "effect" /\ calls[k].clip = i
            /\ calls[m].op = "effect" /\ calls[m].clip = i
        /\ \E e \in 1..Len(loc.audioClips[i].effects) :
            ~loc.audioClips[i].effects[e].enabled

\* the stage a logged call belongs to
StageOf(c) ==
    CASE c.svc = "ffmpeg" /\ c.op \in {"trim", "filter"} -> 1
      [] c.svc = "ffmpeg" /\ c.op = "merge" -> 2
      [] c.svc = "local" -> 3
      [] c.svc = "audio" /\ c.op # "resume" -> 3
      [] c.svc = "ffmpeg" /\ c.op = "mux" -> 4
      [] c.svc = "ffmpeg" /\ c.op = "convert" -> 5
      [] OTHER -> 0

HasCall(op) ==
    \E k \in 1..Len(calls) :
        calls[k].svc = "ffmpeg" /\ calls[k].op = op /\ calls[k].ev = "call"

HasFailed == \E k \in 1..Len(calls) : calls[k].ev = "failed"

IsOutputOf(blob, op) == "op" \in DOMAIN blob /\ blob.op = op

\* the blob is what the stages before the conversion end with
IsCombined(blob) ==
    IF HasCall("mux")
    THEN IsOutputOf(blob, "mux")
            /\ blob.inputs = <<loc.finalVideoBlob, loc.finalAudioBlob>>
    ELSE IF loc.videoClips # <<>> THEN blob = loc.finalVideoBlob
    ELSE blob = loc.finalAudioBlob

\* C11: in an export that completes with every call succeeding, the calls
\* are made stage after stage: the trims and filters of the video clips, the
\* merge, the audio processing with the mix and the WAV, the mux (made if and
\* only if there are video and audio clips), the conversion (made if and only
\* if the format is not mp4 or the quality not high); nothing is delivered
\* before the end, where one artifact is delivered, the output of the last
\* of these stages.
C11_StagesInOrder ==
    /\ \A k \in 1..(Len(calls) - 1) :
        StageOf(calls[k]) <= StageOf(calls[k + 1])
    /\ downloads # <<>> => pc \in {"complete", "idle"}
    /\ (exportStatus = "completed" /\ ~HasFailed) =>
        /\ HasCall("mux") <=> (loc.videoClips # <<>> /\ loc.audioClips # <<>>)
        /\ HasCall("merge") <=> Len(loc.videoClips) > 1
        /\ HasCall("convert") <=>
              (exportSettings.format # "mp4" \/ exportSettings.quality # "high")
        /\ Len(downloads) = 1
        /\ LET blob == downloads[1].blob IN
           IF HasCall("convert")
           THEN IsOutputOf(blob, "convert") /\ IsCombined(blob.inputs[1])
           ELSE IsCombined(blob)

\* an export of two video clips and two audio clips that went through the
\* merge, the mux and the conversion is completed, no call having failed
C11_Witness ==
    /\ exportStatus = "completed"
    /\ ~HasFailed
    /\ HasCall("trim") /\ HasCall("filter") /\ HasCall("merge")
    /\ HasCall("mux") /\ HasCall("convert")
    /\ Len(downloads) = 1

\* the file a blob was made from: the first input of the first exec
RECURSIVE SourceFile(_)
SourceFile(blob) ==
    IF "inputs" \in DOMAIN blob THEN SourceFile(blob.inputs[1]) ELSE blob.name

\* the clips with a file on the tracks of a type that a flag lets through
FileClipsOn(type) ==
    {c \in Range(FlatClips(tracks)) :
        /\ c.file # NoFile
        /\ \E j \in 1..Len(tracks) :
              /\ tracks[j].type = type
              /\ IF type = "video" THEN tracks[j].visible ELSE ~tracks[j].muted
              /\ c \in Range(tracks[j].clips)}

\* the list holds each clip of the set once, by non-decreasing startTime
ListsInOrder(list, clips) ==
    /\ Range(list) = clips
    /\ Len(list) = Cardinality(clips)
    /\ \A k \in 1..(Len(list) - 1) : list[k].startTime <= list[k + 1].startTime

\* the calls made for single clips of a service, in order
ClipCalls(svc) ==
    SelectSeq(calls, LAMBDA c : c.svc = svc /\ c.ev = "call" /\ c.clip > 0)

\* C23: once the export has collected its clips, the video clips it works
\* on are the clips with a file on the visible video tracks and the audio
\* clips those on the audio tracks that are not muted, each list by
\* non-decreasing startTime; every call made for a clip is made for a clip
\* of these lists, the calls go through each list from its first clip to
\* its last, every audio clip is loaded from its own file, and the video
\* files handed to the merge are those of the video clips, in order.
C23_ExportedClips ==
    (pc \notin {"idle", "initVideo", "initAudio", "collect"}) =>
        /\ ListsInOrder(loc.videoClips, FileClipsOn("video"))
        /\ ListsInOrder(loc.audioClips, FileClipsOn("audio"))
        /\ LET made == ClipCalls("ffmpeg") IN
             /\ \A k \in 1..Len(made) : made[k].clip <= Len(loc.videoClips)
             /\ \A k \in 1..(Len(made) - 1) : made[k].clip <= made[k + 1].clip
        /\ LET made == ClipCalls("audio") IN
             /\ \A k \in 1..Len(made) :
                   /\ made[k].clip <= Len(loc.audioClips)
                   /\ made[k].op = "load" =>
                         made[k].arg = loc.audioClips[made[k].clip].file
             /\ \A k \in 1..(Len(made) - 1) : made[k].clip <= made[k + 1].clip
        /\ \A k \in 1..Len(loc.processedFiles) :
             HasFailed \/ SourceFile(loc.processedFiles[k]) = loc.videoClips[k].file
        /\ pc \in {"merge", "videoDone"} =>
             Len(loc.processedFiles) = Len(loc.videoClips)
        /\ pc \in {"mix", "wav"} =>
             \A i \in 1..Len(loc.audioClips) :
                 \E k \in 1..Len(calls) :
                     /\ calls[k].op = "load" /\ calls[k].clip = i
                     /\ calls[k].arg = loc.audioClips[i].file

\* the export of a project with a hidden video track, a muted audio track
\* and a text clip has mixed the clips of its two other audio tracks
C23_Witness ==
    /\ tracks = MixedTimeline
    /\ pc = "combine"
    /\ ~HasFailed
    /\ Len(loc.videoClips) = 1
    /\ Len(loc.audioClips) = 2

\* C12: an export in which a call of the transcoder or of the audio
\* processor failed ends with status 'error' and isExporting false, and
\* downloadBlob was not called.
C12_FailureEndsInError ==
    (HasFailed /\ pc = "idle") =>
        /\ exportStatus = "error"
        /\ ~isExporting
        /\ downloads = <<>>

\* C13: no step of an export changes the tracks, their clips or the duration
\* of the timeline, and once an export has ended with an error the export
\* button is enabled again.
C13_FailureLeavesTimeline ==
    /\ [][UNCHANGED <<tracks, duration>>]_vars
    /\ []((exportStatus = "error" /\ pc = "idle")
            => ~(isExporting \/ exportStatus = "completed"))

\* a second export of a timeline with clips was started after the first one
\* went past the collection of the clips and failed
C13_Witness ==
    /\ listeners >= 1
    /\ pc = "initVideo"
    /\ FlatClips(tracks) # <<>>

----------------------------------------------------------------------------
(* Claims about the audio processor *)

\* the buffer the last call was made on
Input == heap[CHOOSE id \in call.buffers : TRUE]

\* the buffer the last call returned
Output == heap[returned]

\* C14: mixAudioBuffers of an empty list does not throw and returns a
\* buffer of length zero.
C14_MixOfNothingIsEmpty ==
    (call.op = "mix" /\ call.entries = <<>>) =>
        returned # 0 /\ Output.length = 0

\* C15: whatever the order of the entries of a mix, sample rates and channel
\* counts differing or not, the call returns a buffer of the same sample
\* rate, length, channel count and samples.
C15_MixIsCommutative ==
    (call.op = "mix" /\ call.entries # <<>>) =>
        \A f \in Permutations(1..Len(call.entries)) :
            LET permuted == [k \in 1..Len(call.entries) |->
                                call.entries[f[k]]]
            IN  IF returned = 0
                THEN MixAudioBuffers(Resolve(permuted)) = AudioError
                ELSE MixAudioBuffers(Resolve(permuted)) = Output

\* the sample of an entry's buffer that falls on index n of channel c of a
\* mix of the given sample rate, 0 when the buffer does not cover n
Contribution(entry, sampleRate, c, n) ==
    LET source == entry.buffer.channelData[
                      IF entry.buffer.numberOfChannels = 1 THEN 1 ELSE c]
        i == n - SampleAt(entry.startTime, sampleRate)
    IN  IF i >= 0 /\ i < Len(source) THEN source[i + 1] ELSE 0

RECURSIVE PlainSum(_, _, _, _)
PlainSum(entries, sampleRate, c, n) ==
    IF entries = <<>> THEN 0
    ELSE Contribution(Head(entries), sampleRate, c, n)
            + PlainSum(Tail(entries), sampleRate, c, n)

\* C16: every sample of every channel of a mixed buffer is the plain sum of
\* the samples the entries have at that place, a mono entry giving its only
\* channel to every channel, an entry that does not cover the place giving 0.
C16_MixIsPlainSum ==
    (call.op = "mix" /\ returned # 0) =>
        \A c \in 1..Output.numberOfChannels :
            \A n \in 0..(Output.length - 1) :
                Output.channelData[c][n + 1]
                    = PlainSum(Resolve(call.entries), Output.sampleRate, c, n)

\* C17: trimAudio(buffer, s, e) with s < e does not throw; its result has
\* floor(e * rate) - floor(s * rate) samples per channel, each the source's
\* sample at the same absolute index, or 0 where the source has none.
C17_TrimPadsWithSilence ==
    (call.op = "trim" /\ call.startTime < call.endTime) =>
        /\ returned # 0
        /\ LET first == SampleAt(call.startTime, Input.sampleRate)
               last == SampleAt(call.endTime, Input.sampleRate)
           IN  /\ Output.length = last - first
               /\ Output.numberOfChannels = Input.numberOfChannels
               /\ \A c \in 1..Output.numberOfChannels :
                    \A i \in 0..(Output.length - 1) :
                        Output.channelData[c][i + 1]
                          = IF first + i < Input.length
                            THEN Input.channelData[c][first + i + 1] ELSE 0

\* C18: changeVolume(buffer, 0) returns a buffer of zeros, and
\* changeVolume(buffer, 1) a buffer with the channel count, length, sample
\* rate and samples of the input.
C18_VolumeZeroAndOne ==
    (call.op = "volume") =>
        /\ returned # 0
        /\ call.volume = 0 =>
              \A c \in 1..Output.numberOfChannels :
                  \A i \in 1..Output.length : Output.channelData[c][i] = 0
        /\ call.volume = VolUnit => Output = Input

\* changeVolume(buffer, 0) was called on a buffer that is not silent
C18_Witness ==
    /\ call.op = "volume"
    /\ call.volume = 0
    /\ returned # 0
    /\ \E c \in 1..Input.numberOfChannels :
          \E i \in 1..Input.length : Input.channelData[c][i] # 0

\* the largest absolute sample over all channels
LargestAbs(audioBuffer) ==
    CHOOSE m \in {Abs(audioBuffer.channelData[c][i]) :
                     c \in 1..audioBuffer.numberOfChannels,
                     i \in 1..audioBuffer.length} :
        \A c \in 1..audioBuffer.numberOfChannels :
            \A i \in 1..audioBuffer.length :
                Abs(audioBuffer.channelData[c][i]) <= m

\* C19: normalizeAudio of a silent buffer changes nothing; of any other
\* buffer it returns the samples scaled by 0.95 / peak (to the resolution of
\* a sample), peak the largest absolute sample over all channels, so that
\* the largest absolute sample of the result is 0.95; and normalizeAudio of
\* the result gives the samples of the result.
C19_NormalizeToHeadroom ==
    (call.op = "normalize") =>
        /\ returned # 0
        /\ IF LargestAbs(Input) = 0 THEN Output = Input
           ELSE /\ LargestAbs(Output) * 100 = 95 * SampleUnit
                /\ \A c \in 1..Input.numberOfChannels :
                    \A i \in 1..Input.length :
                        Abs(Output.channelData[c][i] * 100 * LargestAbs(Input)
                            - Input.channelData[c][i] * 95 * SampleUnit)
                          < 100 * LargestAbs(Input)
        /\ NormalizeAudio(Output).channelData = Output.channelData

\* normalizeAudio was called on a stereo buffer whose peak is on its second
\* channel and returned a buffer with other samples
C19_Witness ==
    /\ call.op = "normalize"
    /\ returned # 0
    /\ Input.numberOfChannels = 2
    /\ LargestAbs(Input) > LargestAbs([Input EXCEPT !.numberOfChannels = 1])
    /\ Output # Input

\* the unsigned little-endian number in the bytes at offset, offset + 1, ...
RECURSIVE ReadLE(_, _, _)
ReadLE(bytes, offset, size) ==
    IF size = 0 THEN 0
    ELSE bytes[offset + 1] + 256 * ReadLE(bytes, offset + 1, size - 1)

\* the signed 16-bit little-endian number at an offset
ReadInt16LE(bytes, offset) ==
    LET u == ReadLE(bytes, offset, 2) IN IF u >= 32768 THEN u - 65536 ELSE u

\* C21: exportToWav of a buffer of N samples per channel, C channels and
\* rate R returns 44 + N*C*2 bytes with the RIFF/WAVE/fmt /data header of
\* 16-bit integer PCM, its numbers little-endian, and for a silent buffer
\* every data byte is 0.
C21_WavHeader ==
    call.op = "wav" =>
        LET N == Input.length
            C == Input.numberOfChannels
            R == Input.sampleRate
        IN  /\ Len(wav) = 44 + N * C * 2
            /\ SubSeq(wav, 1, 4) = <<82, 73, 70, 70>>
            /\ ReadLE(wav, 4, 4) = 36 + N * C * 2
            /\ SubSeq(wav, 9, 12) = <<87, 65, 86, 69>>
            /\ SubSeq(wav, 13, 16) = <<102, 109, 116, 32>>
            /\ ReadLE(wav, 16, 4) = 16
            /\ ReadLE(wav, 20, 2) = 1
            /\ ReadLE(wav, 22, 2) = C
            /\ ReadLE(wav, 24, 4) = R
            /\ ReadLE(wav, 28, 4) = R * C * 2
            /\ ReadLE(wav, 32, 2) = C * 2
            /\ ReadLE(wav, 34, 2) = 16
            /\ SubSeq(wav, 37, 40) = <<100, 97, 116, 97>>
            /\ ReadLE(wav, 40, 4) = N * C * 2
            /\ \A k \in 1..Len(wav) : wav[k] \in 0..255
            /\ (\A ch \in 1..C, i \in 1..N : Input.channelData[ch][i] = 0)
                  => \A k \in 45..Len(wav) : wav[k] = 0

\* exportToWav was called on a buffer whose rate and data size take more
\* than one byte
C21_Witness ==
    /\ call.op = "wav"
    /\ Input.sampleRate > 255
    /\ Input.length * Input.numberOfChannels * 2 > 255

\* C22: the bytes at offset 44 + 2*(i*C + ch) hold, as a signed 16-bit
\* little-endian number, sample i of channel ch clamped to [-1, 1], times
\* 32768 if negative and 32767 otherwise, truncated; it lies in
\* -32768..32767 whatever the sample.
C22_WavSamples ==
    call.op = "wav" =>
        \A i \in 0..(Input.length - 1), ch \in 0..(Input.numberOfChannels - 1) :
            LET sample == Input.channelData[ch + 1][i + 1]
                clamped == IF sample > SampleUnit THEN SampleUnit
                           ELSE IF sample < -SampleUnit THEN -SampleUnit
                           ELSE sample
                expected == IF clamped < 0
                            THEN -((-clamped * 32768) \div SampleUnit)
                            ELSE (clamped * 32767) \div SampleUnit
                written == ReadInt16LE(wav, 44 + 2 * (i * Input.numberOfChannels + ch))
            IN  written = expected /\ written \in -32768..32767

\* exportToWav was called on a stereo buffer with samples above 1, below -1
\* and in between
C22_Witness ==
    /\ call.op = "wav"
    /\ Input.numberOfChannels = 2
    /\ \E ch \in 1..2, i \in 1..Input.length :
           Input.channelData[ch][i] > SampleUnit
    /\ \E ch \in 1..2, i \in 1..Input.length :
           Input.channelData[ch][i] < -SampleUnit
    /\ \E ch \in 1..2, i \in 1..Input.length :
           Input.channelData[ch][i] \in 1..(SampleUnit - 1)

\* C20: a call of trimAudio, changeVolume, normalizeAudio, applyFadeIn,
\* applyFadeOut or mixAudioBuffers that returns, returns a buffer that is
\* none of its input buffers, and no call changes a buffer that exists.
C20_TransformsReturnNewBuffer ==
    /\ [](returned # 0 => returned \notin call.buffers)
    /\ [][\A id \in 1..Len(heap) : heap'[id] = heap[id]]_vars

----------------------------------------------------------------------------
(* Claims about the callers of the transcoder *)

\* the operation a caller has just come back from
Last(p) == tasks[p].program[tasks[p].n - 1]

\* the caller has come back from an operation that reads a file back
ReadBack(p) ==
    /\ tasks[p].pc = "call"
    /\ tasks[p].n > 1
    /\ ~tasks[p].failed
    /\ Last(p).op \in {"trim", "filter", "thumbnail"}

\* C24: whatever other operations of the transcoder went on in the meantime,
\* an operation returns the output ffmpeg made of the input file that this
\* operation wrote.
C24_ReadsOwnOutput ==
    \A p \in Procs :
        ReadBack(p) =>
            tasks[p].result = [OutputOf(Last(p), tasks[p].file) EXCEPT
                                  !.type = BlobTypeOf(Last(p))]

\* the calls of ffmpeg.load, by their place in the log
LoadCalls ==
    {k \in 1..Len(calls) : calls[k].op = "load" /\ calls[k].ev = "call"}

LoadFailed ==
    \E k \in 1..Len(calls) : calls[k].op = "load" /\ calls[k].ev = "failed"

\* C28: however the initialize() calls of the page, of the media library, of
\* the export and of the operations interleave, ffmpeg.load is called at most
\* once as long as no load has failed.
C28_LoadedOnce == ~LoadFailed => Cardinality(LoadCalls) <= 1

----------------------------------------------------------------------------
(* Claims about the timeline store *)

MaxEndTime(trks) ==
    SeqMaxOf([k \in 1..NumClips(trks) |-> FlatClips(trks)[k].endTime], 0)

\* C4: after any sequence of addClip, updateClip and pasteClips (no clip is
\* ever removed in Spec), timeline.duration is the largest endTime of all
\* clips on all tracks, and 0 when there is no clip.
C4_DurationIsMaxEndTime == duration = MaxEndTime(tracks)

InvalidTiming(c) == c.startTime >= c.endTime \/ c.trimStart >= c.trimEnd

\* the clips updateClip(clipId, updates) assigns to, as they are after it
UpdatedClips(trks, clipId, updates) ==
    {ObjectAssign(trks[i].clips[FindClipIndex(trks[i].clips, clipId)], updates) :
        i \in {j \in 1..Len(trks) : FindClipIndex(trks[j].clips, clipId) # 0}}

\* C5: a call of addClip or updateClip whose clip timing is invalid
\* (startTime >= endTime or trimStart >= trimEnd) changes neither a track's
\* clip list, nor a clip, nor timeline.duration.
C5_InvalidTimingRejected ==
    [][ /\ \A trackId \in TrackIdInputs, clip \in EditClipInputs :
              (AddClip(trackId, clip) /\ InvalidTiming(clip))
                  => UNCHANGED <<tracks, duration>>
        /\ \A clipId \in ClipIds(tracks), updates \in EditUpdateInputs :
              (/\ UpdateClip(clipId, updates)
               /\ \E c \in UpdatedClips(tracks, clipId, updates) : InvalidTiming(c))
                  => UNCHANGED <<tracks, duration>> ]_vars

\* C6: each clip id occurs at most once in the whole timeline: not twice on
\* one track and not on two tracks.
C6_ClipIdsUnique ==
    \A i, j \in 1..NumClips(tracks) :
        i # j => FlatClips(tracks)[i].id # FlatClips(tracks)[j].id

\* C26: a step that removes a clip, be it the clip that ends last or the
\* only clip, leaves timeline.duration and playback.currentTime as they
\* were.
C26_RemoveKeepsDuration ==
    [][NumClips(tracks') < NumClips(tracks) =>
          (duration' = duration /\ currentTime' = currentTime)]_vars

\* every clip has been removed and the playhead stands at the end of a
\* timeline that kept its duration
C26_Witness ==
    /\ NumClips(tracks) = 0
    /\ duration > 0
    /\ currentTime = duration

\* C27: whatever tracks were added and removed, no two tracks of the
\* timeline have the same id.
C27_TrackIdsUnique ==
    \A i \in 1..Len(tracks), j \in 1..Len(tracks) :
        i # j => tracks[i].id # tracks[j].id

\* how many times a track stands in a list of tracks
Occurrences(trks, track) == Cardinality({i \in 1..Len(trks) : trks[i] = track})

\* C29: for every list of ids, the tracks reorderTracks leaves are the
\* tracks there were, each as many times as before: none dropped, none
\* duplicated.
C29_ReorderPermutes ==
    \A trackIds \in ReorderInputs(tracks) :
        LET after == reorderTracksTracks(tracks, trackIds) IN
        \A track \in Range(tracks) \cup Range(after) :
            Occurrences(after, track) = Occurrences(tracks, track)

\* C30: the playhead stays between 0 and timeline.duration, and the fields
\* of playback agree with their copies in project.timeline.
C30_PlayheadInRange ==
    /\ 0 <= currentTime
    /\ currentTime <= duration
    /\ currentTime = timeline.currentTime
    /\ playback.isPlaying = timeline.isPlaying
    /\ playback.playbackRate = timeline.playbackRate

\* the playhead was set to the end while playing at another rate, and the
\* clips were removed afterwards
C30_Witness ==
    /\ duration > 0
    /\ currentTime = duration
    /\ playback.isPlaying
    /\ playback.playbackRate = 2
    /\ NumClips(tracks) = 0

\* C25: whatever the resize drags, every clip starts at 0 or later and ends
\* after it starts.
C25_ResizeKeepsLength ==
    \A c \in Range(FlatClips(tracks)) :
        c.startTime >= 0 /\ c.endTime > c.startTime

----------------------------------------------------------------------------
(* Claims about the preview *)

\* C7: no clip the preview draws at the playhead time t has t < startTime or
\* t >= endTime.
C7_DrawnClipsAreActive ==
    \A k \in 1..Len(drawn) :
        ~(currentTime < drawn[k].clip.startTime
            \/ currentTime >= drawn[k].clip.endTime)

\* a clip is drawn while a clip of a rendered track that ends exactly at the
\* playhead is left out
C7_Witness ==
    /\ Len(drawn) > 0
    /\ \E i \in 1..Len(tracks) : \E k \in 1..Len(tracks[i].clips) :
          /\ tracks[i].visible
          /\ tracks[i].clips[k].startTime < currentTime
          /\ tracks[i].clips[k].endTime = currentTime
          /\ \A d \in 1..Len(drawn) : drawn[d].clip # tracks[i].clips[k]

\* C8: the clips are drawn in ascending startTime order, and of two drawn
\* clips with the same startTime the one on the track with the lower index
\* is drawn first.
C8_DrawnInOrder ==
    \A i, j \in 1..Len(drawn) :
        i < j =>
            /\ drawn[i].clip.startTime <= drawn[j].clip.startTime
            /\ drawn[i].clip.startTime = drawn[j].clip.startTime
                  => drawn[i].track <= drawn[j].track

\* two clips with the same startTime on different tracks are drawn
C8_Witness ==
    \E i, j \in 1..Len(drawn) :
        /\ i < j
        /\ drawn[i].clip.startTime = drawn[j].clip.startTime
        /\ drawn[i].track < drawn[j].track

\* C9: of the clips active at the playhead, one on a video or text track is
\* drawn only if the track is visible, and one on an audio track is drawn if
\* and only if the track is not muted.
C9_GatedByTrackType ==
    \A i \in 1..Len(tracks) : \A k \in 1..Len(tracks[i].clips) :
        LET c == tracks[i].clips[k]
            isDrawn == \E d \in 1..Len(drawn) :
                          drawn[d].clip = c /\ drawn[d].track = i
        IN  (c.startTime <= currentTime /\ currentTime < c.endTime) =>
                IF tracks[i].type = "audio"
                THEN isDrawn <=> ~tracks[i].muted
                ELSE isDrawn => tracks[i].visible

=============================================================================
